---- MODULE Spec2Model ----
(***************************************************************************)
(* Hot-swap engine of the JIT DSP plugin (plugin/clap_plugin.cc).          *)
(*                                                                         *)
(* Two threads share one PluginState: the host's main thread (plugin_init, *)
(* plugin_activate, plugin_deactivate, plugin_destroy, do_recompile and    *)
(* the GUI callbacks) and the audio thread (plugin_process).  The only     *)
(* synchronisation between them is the atomic flag reload_pending; every   *)
(* other field is a plain load or store.  Each action below is one         *)
(* statement (or one run of statements that touch only thread-private      *)
(* data) of the handler it models.                                         *)
(*                                                                         *)
(* A compile is identified by its number cid (1 is plugin_init's compile). *)
(* The ClapJIT instance created by compile cid is JIT cid, and every       *)
(* function pointer resolved from that instance is written cid; 0 is       *)
(* nullptr.  Floats are written times ten (1.0f is 10, 0.5f is 5).         *)
(***************************************************************************)
EXTENDS Integers, Sequences, FiniteSets, TLC

\* ------------------------------------------------------------------ bounds
MaxCompiles == 3        \* compile_dsp calls in one run (plugin_init's included)
MaxParams == 1          \* largest param_count() a compiled unit reports
MaxSaves == 2           \* saves of the selected DSP file in one run
MaxHeaderEdits == 1     \* edits of the included lib/ header in one run

\* ------------------------------------------------------- program constants
GParamsLen == 16        \* float g_params[16]
Absent == -1            \* a symbol the unit does not export (lookupAs fails)

\* Values a parameter takes: ParamInfo's fallback default 0.5f and 1.0f.
ParamValues == {5, 10}

\* (sample_rate, min_frames, max_frames) the host activates the plugin with.
AudioConfigs == {<<44, 1, 2>>, <<48, 2, 4>>}

VARIABLES
  lifecycle,        \* "created" | "inited" | "init_failed" | "destroyed"
  init_log,         \* what plugin_init logged last: the error, or "Init success!"
  \* ---- PluginState: the active binding
  jit, process_fn, dsp_init, dsp_destroy,
  \* ---- PluginState: the pending slot
  reload_pending, pending_fn, pending_jit, pending_init, pending_destroy,
  \* ---- PluginState: audio parameters
  sample_rate, min_frames, max_frames, dsp_activated,
  hooks,            \* hooks[c]: what the calls of unit c's init and destroy came to
  \* ---- PluginState: parameters, and the global g_params
  param_info, gui_params, g_params,
  \* ---- PluginState: file watcher, GUI status
  last_modified, last_error, compile_success,
  \* ---- the JIT instances
  ncompiles,        \* compile_dsp calls so far
  alive,            \* ClapJIT instances that exist (not yet destroyed)
  exports,          \* exports[c]: the hooks unit c exports (0 where compile c failed)
  \* ---- main thread, inside do_recompile
  ctl_pc, result, old_count, qi,
  \* ---- audio thread, inside plugin_process
  audio_pc, si, fn,
  \* ---- history of the running plugin_process call, and of all calls
  ptrace,           \* what the running plugin_process call has done so far
  quiet,            \* do_recompile calls that succeeded since plugin_process last ran
  clean,            \* plugin_process has not run since the running do_recompile began
  dropped,          \* compiles whose pending binding a later one has replaced unseen
  activate_args     \* the arguments of the last plugin_activate call

binding == <<jit, process_fn, dsp_init, dsp_destroy>>
pending == <<pending_jit, pending_fn, pending_init, pending_destroy>>
audio_cfg == <<sample_rate, min_frames, max_frames, dsp_activated, hooks>>
params == <<param_info, gui_params, g_params>>
status == <<last_modified, last_error, compile_success>>
jits == <<ncompiles, alive, exports>>
ctl == <<ctl_pc, result, old_count, qi>>
audio == <<audio_pc, si, fn>>
history == <<ptrace, quiet, clean, dropped, activate_args>>

\* ---- jit/JIT.cc: the object cache of ClapJIT::addModule
VARIABLES
  clock,            \* the file system's time
  fs_source,        \* the source file: [exists, mtime, text]
  fs_object,        \* the file at the cache path: [exists, mtime, unit]
  fs_sidecar,       \* the file at the cache path + ".sym": [exists, lines]
  fs_cachedir,      \* "writable" | "readonly" | "blocked" (cannot be created)
  options_,         \* options_[j]: the JITOptions of ClapJIT instance j
  symbols_,         \* symbols_[j]: its symbol table
  llJIT_,           \* llJIT_[j]: the units linked into its LLJIT
  calls             \* the addModule calls made, in order

\* ---- jit/JIT.cc: ClapJIT::getCachePath on its own
VARIABLES
  cwd,              \* the process's working directory
  seen              \* the (file, cache path) pairs getCachePath has produced

\* ---- jit/JIT.cc: units added to ClapJIT instances that do not cache
VARIABLES
  queue,            \* addModules under way: [jit, FilePaths left], jit 0 if none
  adds,             \* addModule calls made by addModules so far
  last_add,         \* what the last of them did and returned
  statics,          \* statics[j]: the static variables of the units linked
  life              \* life[j]: the last of init and destroy run on instance j

\* ---- plugin/clap_plugin.cc: the file-watch timer and the selected file
VARIABLES
  dsp_mtime,        \* last_write_time of the selected DSP file
  saved_at,         \* compile_dsp calls made when the file was last saved
  timer_pc,         \* "none" | "recompile": timer_on_timer inside do_recompile
  mod_time,         \* timer_on_timer's local mod_time (0 outside the callback)
  entered_at,       \* compile_dsp calls made when timer_on_timer was entered
  recompiled_for,   \* the file times timer_on_timer has called do_recompile for
  gui_pc            \* "none" | "request" (the GUI inside do_recompile) |
                    \* "request_saved" (and the file saved meanwhile) |
                    \* "done" (it returned; no save and no tick since)

\* ---- jit/JIT.cc: what a compiled object depends on besides the source
VARIABLES
  fs_header,        \* the version of the lib/ header the source includes
  built_from,       \* the header and options the cache object was compiled with
  last_link         \* the last addModule: a cache hit?, what it linked, what to expect

cache_vars == <<clock, fs_source, fs_object, fs_sidecar, fs_cachedir,
                options_, symbols_, llJIT_, calls>>
path_vars == <<cwd, seen>>
link_vars == <<queue, adds, last_add, statics, life>>
watch_vars == <<dsp_mtime, saved_at, timer_pc, mod_time, entered_at,
                recompiled_for, gui_pc>>
dep_vars == <<fs_header, built_from, last_link>>

\* The state of the plugin.
plugin_vars == <<lifecycle, init_log, binding, reload_pending, pending,
                 audio_cfg, params, status, jits, ctl, audio, history>>

\* The state outside the plugin: the files of the object cache and the
\* ClapJIT instances of jit/JIT.cc, where they are looked at on their own.
jit_world == <<cache_vars, path_vars, link_vars, watch_vars, dep_vars>>

vars == <<plugin_vars, jit_world>>

\* ------------------------------------------------------------ compile_dsp

\* What a source file exports: `process` and the optional hooks and
\* parameter queries.  A query is Absent or the value it returns.
\* The hooks come as in the repository's example units: both init and
\* destroy (cxx_delay.cc) or neither (gain.cc).
Units ==
  { [process |-> TRUE, init |-> h, destroy |-> h,
     param_count |-> n, param_default |-> v] :
       h \in BOOLEAN,
       n \in {Absent} \cup (0 .. MaxParams), v \in {Absent, 10} }

NoProcessUnit ==
  [process |-> FALSE, init |-> FALSE, destroy |-> FALSE,
   param_count |-> Absent, param_default |-> Absent]

\* The stage compile_dsp fails at ("none": every step succeeds), with the
\* unit the selected file holds.
Outcomes ==
  { [fail |-> s, unit |-> NoProcessUnit] :
       s \in {"jit_create", "define_symbol", "lib", "main"} }
  \cup { [fail |-> "none", unit |-> u] : u \in Units \cup {NoProcessUnit} }

\* The outcomes of a compile when the selected file may also be a unit
\* whose param_count() is more than g_params holds.
ManyParamOutcomes ==
  Outcomes
  \cup { [fail |-> "none",
          unit |-> [process |-> TRUE, init |-> FALSE, destroy |-> FALSE,
                    param_count |-> GParamsLen + 1, param_default |-> v]] :
            v \in {Absent, 10} }

EmptyResult ==
  [jit |-> 0, process_fn |-> 0, init_fn |-> 0, destroy_fn |-> 0,
   param_count |-> Absent, param_default |-> Absent, error |-> ""]

Failed(msg) == [EmptyResult EXCEPT !.error = msg]

\* Mutant of compile_dsp: the failed lookup of `process` returns without
\* resetting result.jit.
compile_dsp_keep_jit(cid, o) ==
  IF o.fail # "none" THEN Failed("Compile error")
  ELSE IF ~o.unit.process THEN [Failed("Lookup error") EXCEPT !.jit = cid]
  ELSE [jit |-> cid,
        process_fn |-> cid,
        init_fn |-> IF o.unit.init THEN cid ELSE 0,
        destroy_fn |-> IF o.unit.destroy THEN cid ELSE 0,
        param_count |-> o.unit.param_count,
        param_default |-> o.unit.param_default,
        error |-> ""]

\* compile_dsp: the CompileResult of compile cid.  Every failure path has
\* reset result.jit before it returns.
compile_dsp(cid, o) ==
  IF o.fail = "jit_create" THEN Failed("JIT create error")
  ELSE IF o.fail = "define_symbol" THEN Failed("Symbol define error")
  ELSE IF o.fail = "lib" THEN Failed("Lib compile error")
  ELSE IF o.fail = "main" THEN Failed("Compile error")
  ELSE IF ~o.unit.process THEN Failed("Lookup error")
  ELSE [jit |-> cid,
        process_fn |-> cid,
        init_fn |-> IF o.unit.init THEN cid ELSE 0,
        destroy_fn |-> IF o.unit.destroy THEN cid ELSE 0,
        param_count |-> o.unit.param_count,
        param_default |-> o.unit.param_default,
        error |-> ""]

\* CompileResult::success
success(r) == r.process_fn # 0

\* The hooks of a compile, kept to tell which compile a pointer is from.
ExportsOf(r) == [ok |-> success(r), init |-> r.init_fn, destroy |-> r.destroy_fn]

Min(a, b) == IF a < b THEN a ELSE b

\* The ParamInfo query_dsp_params builds for one index.
ParamInfoOf(r) ==
  [name |-> "Param", min_value |-> 0, max_value |-> 10,
   default_value |-> IF r.param_default = Absent THEN 5 ELSE r.param_default]

\* ------------------------------------------------------------------- Init

\* Before any ClapJIT exists: the source file is there, the cache directory
\* is empty.
CacheFresh ==
  /\ clock = 0
  /\ fs_source = [exists |-> TRUE, mtime |-> 0, text |-> "add"]
  /\ fs_object = [exists |-> FALSE, mtime |-> 0, unit |-> ""]
  /\ fs_sidecar = [exists |-> FALSE, lines |-> <<>>]
  /\ fs_cachedir = "writable"
  /\ options_ = <<>> /\ symbols_ = <<>> /\ llJIT_ = <<>>
  /\ calls = <<>>

\* Before any call of getCachePath, in the root directory.
PathFresh == cwd = <<>> /\ seen = {}

\* No addModules under way, none made.
NoQueue == [jit |-> 0, FilePaths |-> <<>>]
NoAdd ==
  [jit |-> 0, FilePath |-> <<>>, M |-> "", ret |-> "",
   err |-> [type |-> "success", code |-> "", message |-> <<>>],
   diagOutput |-> <<>>, added |-> <<>>, linked |-> <<>>]

\* The static variables as their initialisers leave them (gain in tenths).
InitialStatics == [g_initialized |-> FALSE, g_sample_rate |-> 0, gain |-> 10]

LinkFresh ==
  /\ queue = NoQueue /\ adds = 0 /\ last_add = NoAdd
  /\ statics = <<>> /\ life = <<>>

\* The selected file as it is when the plugin is created, no timer
\* callback running.  Time 0 is file_time_type{}, which no file has.
WatchFresh ==
  /\ dsp_mtime = 1 /\ saved_at = 0
  /\ timer_pc = "none" /\ mod_time = 0 /\ entered_at = 0
  /\ recompiled_for = {} /\ gui_pc = "none"

\* What an object is compiled from besides the source text: the header
\* the source includes and the language standard of the instance.
Deps(header, opts) == [header |-> header, langStandard |-> opts.langStandard]
NoDeps == [header |-> 0, langStandard |-> ""]

\* The header as installed, no cache object, no addModule made.
DepsFresh ==
  /\ fs_header = 0 /\ built_from = NoDeps
  /\ last_link = [hit |-> FALSE, built |-> NoDeps, wanted |-> NoDeps]

\* The PluginState factory_create_plugin constructs.
NewPluginState ==
  /\ lifecycle = "created" /\ init_log = ""
  /\ jit = 0 /\ process_fn = 0 /\ dsp_init = 0 /\ dsp_destroy = 0
  /\ reload_pending = FALSE
  /\ pending_fn = 0 /\ pending_jit = 0 /\ pending_init = 0 /\ pending_destroy = 0
  /\ sample_rate = 0 /\ min_frames = 0 /\ max_frames = 0
  /\ dsp_activated = FALSE
  /\ hooks = [c \in 1 .. MaxCompiles |-> "none"]
  /\ param_info = <<>> /\ gui_params = <<>>
  /\ g_params = [i \in 1 .. GParamsLen |-> IF i = 1 THEN 10 ELSE 0]
  /\ last_modified = 0 /\ last_error = "" /\ compile_success = FALSE
  /\ ncompiles = 0 /\ alive = {} /\ exports = <<>>
  /\ ctl_pc = "idle" /\ result = EmptyResult /\ old_count = 0 /\ qi = 0
  /\ audio_pc = "idle" /\ si = 0 /\ fn = 0
  /\ ptrace = <<>> /\ quiet = <<>> /\ clean = FALSE /\ dropped = {}
  /\ activate_args = <<0, 0, 0>>

\* The plugin as the host's factory call leaves it.
Init ==
  /\ NewPluginState /\ CacheFresh /\ PathFresh /\ LinkFresh /\ WatchFresh
  /\ DepsFresh

\* ------------------------------------------------------- query_dsp_params

\* Number of loop iterations: i < count && i < 16.
QueryCount(r) ==
  IF r.param_count = Absent THEN 0 ELSE Min(r.param_count, GParamsLen)

\* Mutant of QueryStep: the default is not stored into g_params[i].
QueryStep_keep_value(r, i) ==
  /\ param_info' = Append(param_info, ParamInfoOf(r))
  /\ gui_params' = Append(gui_params, ParamInfoOf(r).default_value)
  /\ g_params' = g_params

\* One loop iteration (0-based index i): push_back on both vectors and the
\* store of the default into g_params[i].
QueryStep(r, i) ==
  /\ param_info' = Append(param_info, ParamInfoOf(r))
  /\ gui_params' = Append(gui_params, ParamInfoOf(r).default_value)
  /\ g_params' = [g_params EXCEPT ![i + 1] = ParamInfoOf(r).default_value]

\* The whole of query_dsp_params, where nothing can interleave with it.
QueryAll(r) ==
  /\ param_info' = [i \in 1 .. QueryCount(r) |-> ParamInfoOf(r)]
  /\ gui_params' = [i \in 1 .. QueryCount(r) |-> ParamInfoOf(r).default_value]
  /\ g_params' = [i \in 1 .. GParamsLen |->
                    IF i <= QueryCount(r) THEN ParamInfoOf(r).default_value
                    ELSE g_params[i]]

\* ------------------------------------------------ main thread: lifecycle

\* plugin_init, the selected file being one of outs: the first compile; on
\* success it installs the binding.
plugin_init_from(outs) ==
  /\ lifecycle = "created"
  /\ \E o \in outs :
       LET r == compile_dsp(ncompiles + 1, o) IN
         /\ ncompiles' = ncompiles + 1
         /\ exports' = Append(exports, ExportsOf(r))
         /\ IF ~success(r)
              THEN /\ lifecycle' = "init_failed"
                   /\ init_log' = r.error
                   /\ UNCHANGED <<binding, alive, params>>
              ELSE /\ lifecycle' = "inited"
                   /\ init_log' = "Init success!"
                   /\ jit' = r.jit
                   /\ process_fn' = r.process_fn
                   /\ dsp_init' = r.init_fn
                   /\ dsp_destroy' = r.destroy_fn
                   /\ alive' = alive \cup {r.jit}
                   /\ QueryAll(r)
  /\ UNCHANGED <<jit_world, reload_pending, pending, audio_cfg, status, ctl,
                 audio, history>>

\* Mutant of plugin_init: the result is not checked, the plugin counts as
\* initialised whatever compile_dsp returned.
plugin_init_unchecked ==
  /\ lifecycle = "created"
  /\ \E o \in Outcomes :
       LET r == compile_dsp(ncompiles + 1, o) IN
         /\ ncompiles' = ncompiles + 1
         /\ exports' = Append(exports, ExportsOf(r))
         /\ lifecycle' = "inited"
         /\ init_log' = "Init success!"
         /\ jit' = r.jit
         /\ process_fn' = r.process_fn
         /\ dsp_init' = r.init_fn
         /\ dsp_destroy' = r.destroy_fn
         /\ alive' = alive \cup ({r.jit} \ {0})
         /\ QueryAll(r)
  /\ UNCHANGED <<jit_world, reload_pending, pending, audio_cfg, status, ctl,
                 audio, history>>

\* plugin_init: the first compile; on success it installs the binding.
plugin_init == plugin_init_from(Outcomes)

\* The calls of a unit's hooks so far: "none" made, "up" (init returned
\* true last), "failed" (init returned false last), "down" (destroy after
\* "up"); "init_again" once init was called while "up" and "destroy_unset"
\* once destroy was called while not "up".
Misused == {"init_again", "destroy_unset"}

\* dsp_init(...), a pointer into unit b, is called and returns ok.
CallInit(b, ok) ==
  [hooks EXCEPT ![b] = IF @ \in Misused THEN @
                       ELSE IF @ = "up" THEN "init_again"
                       ELSE IF ok THEN "up" ELSE "failed"]

\* dsp_destroy(), a pointer into unit b, is called.
CallDestroy(b) ==
  [hooks EXCEPT ![b] = IF @ \in Misused THEN @
                       ELSE IF @ = "up" THEN "down" ELSE "destroy_unset"]

\* The host calls the main-thread entry points one at a time, and
\* activate/deactivate/destroy only while plugin_process is not running.
MainIdle == lifecycle = "inited" /\ ctl_pc = "idle"

\* plugin_activate: records the audio parameters, calls init if present.
plugin_activate ==
  /\ MainIdle /\ audio_pc = "idle" /\ ~dsp_activated
  /\ \E c \in AudioConfigs, init_ok \in BOOLEAN :
       /\ activate_args' = c
       /\ sample_rate' = c[1]
       /\ min_frames' = c[2]
       /\ max_frames' = c[3]
       /\ IF dsp_init # 0
            THEN /\ dsp_activated' = init_ok
                 /\ hooks' = CallInit(dsp_init, init_ok)
            ELSE /\ init_ok /\ dsp_activated' = TRUE
                 /\ UNCHANGED hooks
  /\ UNCHANGED <<jit_world, init_log, lifecycle, binding, reload_pending, pending, params, status,
                 jits, ctl, audio, ptrace, quiet, clean, dropped>>

\* plugin_deactivate: calls destroy if present.
plugin_deactivate ==
  /\ MainIdle /\ audio_pc = "idle" /\ dsp_activated
  /\ hooks' = IF dsp_destroy # 0 THEN CallDestroy(dsp_destroy) ELSE hooks
  /\ dsp_activated' = FALSE
  /\ UNCHANGED <<jit_world, init_log, lifecycle, binding, reload_pending, pending, sample_rate,
                 min_frames, max_frames, params, status, jits, ctl, audio,
                 ptrace, quiet, clean, dropped, activate_args>>

\* plugin_destroy: delete state destroys both unique_ptr<ClapJIT>.
plugin_destroy ==
  /\ MainIdle /\ audio_pc = "idle"
  /\ hooks' = IF dsp_activated /\ dsp_destroy # 0
                THEN CallDestroy(dsp_destroy) ELSE hooks
  /\ dsp_activated' = FALSE
  /\ alive' = alive \ {jit, pending_jit}
  /\ lifecycle' = "destroyed"
  /\ UNCHANGED <<jit_world, init_log, binding, reload_pending, pending, sample_rate, min_frames,
                 max_frames, params, status, ncompiles, exports, ctl, audio,
                 ptrace, quiet, clean, dropped, activate_args>>

\* ---------------------------------------------- main thread: do_recompile

\* Events of the running plugin_process call.
Ev(op, id) == [op |-> op, id |-> id, args |-> <<>>]
EvInit(id, args) == [op |-> "init", id |-> id, args |-> args]

\* A store of do_recompile into the pending slot while plugin_process runs:
\* the call no longer counts as one that ran with do_recompile at rest.
Raced ==
  IF audio_pc = "idle" THEN ptrace ELSE [ptrace EXCEPT ![1].id = 0]

\* Mutant of recompile_begin: the status of the attempt before is left.
recompile_begin_keep_status ==
  /\ MainIdle
  /\ ncompiles < MaxCompiles
  /\ ctl_pc' = "compile"
  /\ result' = EmptyResult
  /\ clean' = (audio_pc = "idle")
  /\ UNCHANGED <<jit_world, init_log, lifecycle, binding, reload_pending, pending, audio_cfg, params,
                 status, jits, old_count, qi, audio, ptrace,
                 quiet, dropped, activate_args>>

\* do_recompile, entry: clears the status shown by the GUI; result is the
\* CompileResult of this call.
recompile_begin ==
  /\ MainIdle
  /\ ncompiles < MaxCompiles
  /\ last_error' = ""
  /\ compile_success' = FALSE
  /\ ctl_pc' = "compile"
  /\ result' = EmptyResult
  /\ clean' = (audio_pc = "idle")
  /\ UNCHANGED <<jit_world, init_log, lifecycle, binding, reload_pending, pending, audio_cfg, params,
                 last_modified, jits, old_count, qi, audio, ptrace,
                 quiet, dropped, activate_args>>

\* compile_dsp of one of outs returns into result; a failed result sets
\* last_error and do_recompile returns.
recompile_compile_from(outs) ==
  /\ ctl_pc = "compile"
  /\ \E o \in outs :
       LET r == compile_dsp(ncompiles + 1, o) IN
         /\ ncompiles' = ncompiles + 1
         /\ exports' = Append(exports, ExportsOf(r))
         /\ IF ~success(r)
              THEN /\ last_error' = r.error
                   /\ ctl_pc' = "idle"
                   /\ result' = r
                   /\ UNCHANGED alive
              ELSE /\ result' = r
                   /\ alive' = alive \cup {r.jit}
                   /\ ctl_pc' = "set_fn"
                   /\ UNCHANGED last_error
  /\ UNCHANGED <<jit_world, init_log, lifecycle, binding, reload_pending, pending, audio_cfg, params,
                 last_modified, compile_success, old_count, qi, audio, history>>

\* Mutant of recompile_compile: the success check is missing, so a failed
\* result is stored into the pending slot and published.
recompile_compile_unchecked ==
  /\ ctl_pc = "compile"
  /\ \E o \in Outcomes :
       LET r == compile_dsp(ncompiles + 1, o) IN
         /\ ncompiles' = ncompiles + 1
         /\ exports' = Append(exports, ExportsOf(r))
         /\ IF ~success(r)
              THEN /\ last_error' = r.error
                   /\ ctl_pc' = "idle"
                   /\ pending_fn' = r.process_fn
                   /\ pending_init' = r.init_fn
                   /\ pending_destroy' = r.destroy_fn
                   /\ pending_jit' = r.jit
                   /\ alive' = alive \ {pending_jit}
                   /\ reload_pending' = TRUE
                   /\ result' = r
              ELSE /\ result' = r
                   /\ alive' = alive \cup {r.jit}
                   /\ ctl_pc' = "set_fn"
                   /\ UNCHANGED <<last_error, reload_pending, pending>>
  /\ UNCHANGED <<jit_world, init_log, lifecycle, binding, audio_cfg, params,
                 last_modified, compile_success, old_count, qi, audio, history>>

\* Mutant of recompile_compile: the parameters are queried before the
\* result is checked, so a failed compile clears them.
recompile_compile_query_first ==
  /\ ctl_pc = "compile"
  /\ \E o \in Outcomes :
       LET r == compile_dsp(ncompiles + 1, o) IN
         /\ ncompiles' = ncompiles + 1
         /\ exports' = Append(exports, ExportsOf(r))
         /\ IF ~success(r)
              THEN /\ last_error' = r.error
                   /\ ctl_pc' = "idle"
                   /\ param_info' = <<>>
                   /\ gui_params' = <<>>
                   /\ result' = r
                   /\ UNCHANGED <<alive, g_params>>
              ELSE /\ result' = r
                   /\ alive' = alive \cup {r.jit}
                   /\ ctl_pc' = "set_fn"
                   /\ UNCHANGED <<last_error, params>>
  /\ UNCHANGED <<jit_world, init_log, lifecycle, binding, reload_pending,
                 pending, audio_cfg, last_modified, compile_success,
                 old_count, qi, audio, history>>

\* compile_dsp returns into result; a failed result sets last_error and
\* do_recompile returns.
recompile_compile == recompile_compile_from(Outcomes)

\* state->pending_fn = result.process_fn
recompile_set_fn ==
  /\ ctl_pc = "set_fn"
  /\ pending_fn' = result.process_fn
  /\ ctl_pc' = "set_init"
  /\ ptrace' = Raced
  /\ UNCHANGED <<jit_world, init_log, lifecycle, binding, reload_pending, pending_jit, pending_init,
                 pending_destroy, audio_cfg, params, status, jits, result,
                 old_count, qi, audio, quiet, clean, dropped, activate_args>>

\* state->pending_init = result.init_fn
recompile_set_init ==
  /\ ctl_pc = "set_init"
  /\ pending_init' = result.init_fn
  /\ ctl_pc' = "set_destroy"
  /\ ptrace' = Raced
  /\ UNCHANGED <<jit_world, init_log, lifecycle, binding, reload_pending, pending_jit, pending_fn,
                 pending_destroy, audio_cfg, params, status, jits, result,
                 old_count, qi, audio, quiet, clean, dropped, activate_args>>

\* state->pending_destroy = result.destroy_fn
recompile_set_destroy ==
  /\ ctl_pc = "set_destroy"
  /\ pending_destroy' = result.destroy_fn
  /\ ctl_pc' = "set_jit"
  /\ ptrace' = Raced
  /\ UNCHANGED <<jit_world, init_log, lifecycle, binding, reload_pending, pending_jit, pending_fn,
                 pending_init, audio_cfg, params, status, jits, result,
                 old_count, qi, audio, quiet, clean, dropped, activate_args>>

\* Mutant of recompile_set_jit: the new instance replaces state->jit at
\* once, as in the first version of do_recompile.
recompile_set_jit_active ==
  /\ ctl_pc = "set_jit"
  /\ jit' = result.jit
  /\ alive' = alive \ {jit}
  /\ result' = [result EXCEPT !.jit = 0]
  /\ ctl_pc' = "query"
  /\ ptrace' = Raced
  /\ UNCHANGED <<jit_world, init_log, lifecycle, process_fn, dsp_init, dsp_destroy, reload_pending,
                 pending, audio_cfg, params, status, ncompiles, exports,
                 old_count, qi, audio, quiet, clean, dropped, activate_args>>

\* Mutant of recompile_set_jit: a pending instance is kept and the newer
\* one is discarded (first writer wins).
recompile_set_jit_keep_first ==
  /\ ctl_pc = "set_jit"
  /\ pending_jit' = IF pending_jit # 0 THEN pending_jit ELSE result.jit
  /\ alive' = IF pending_jit # 0 THEN alive \ {result.jit} ELSE alive
  /\ result' = [result EXCEPT !.jit = 0]
  /\ ctl_pc' = "query"
  /\ ptrace' = Raced
  /\ UNCHANGED <<jit_world, init_log, lifecycle, binding, reload_pending, pending_fn, pending_init,
                 pending_destroy, audio_cfg, params, status, ncompiles, exports,
                 old_count, qi, audio, quiet, clean, dropped, activate_args>>

\* state->pending_jit = std::move(result.jit): the unique_ptr deletes the
\* instance the slot held.
recompile_set_jit ==
  /\ ctl_pc = "set_jit"
  /\ pending_jit' = result.jit
  /\ alive' = alive \ {pending_jit}
  /\ result' = [result EXCEPT !.jit = 0]
  /\ ctl_pc' = "query"
  /\ ptrace' = Raced
  /\ UNCHANGED <<jit_world, init_log, lifecycle, binding, reload_pending, pending_fn, pending_init,
                 pending_destroy, audio_cfg, params, status, ncompiles, exports,
                 old_count, qi, audio, quiet, clean, dropped, activate_args>>

\* query_dsp_params, entry: old_count is read and both vectors are cleared.
recompile_query ==
  /\ ctl_pc = "query"
  /\ old_count' = Len(param_info)
  /\ param_info' = <<>>
  /\ gui_params' = <<>>
  /\ qi' = 0
  /\ ctl_pc' = IF QueryCount(result) = 0 THEN "publish" ELSE "query_loop"
  /\ UNCHANGED <<jit_world, init_log, lifecycle, binding, reload_pending, pending, audio_cfg,
                 g_params, status, jits, result, audio, history>>

\* query_dsp_params, one iteration of the loop.
recompile_query_loop ==
  /\ ctl_pc = "query_loop"
  /\ QueryStep(result, qi)
  /\ qi' = qi + 1
  /\ ctl_pc' = IF qi + 1 < QueryCount(result) THEN "query_loop" ELSE "publish"
  /\ UNCHANGED <<jit_world, init_log, lifecycle, binding, reload_pending, pending, audio_cfg,
                 status, jits, result, old_count, audio, history>>

\* reload_pending.store(true), compile_success = true, last_modified reset;
\* do_recompile returns.  (The host's rescan callback before it changes
\* nothing of the plugin.)
recompile_publish ==
  /\ ctl_pc = "publish"
  /\ reload_pending' = TRUE
  /\ compile_success' = TRUE
  /\ last_modified' = 0
  /\ ctl_pc' = "idle"
  /\ result' = EmptyResult
  /\ quiet' = IF clean THEN Append(quiet, ncompiles) ELSE quiet
  /\ dropped' = IF clean THEN dropped \cup {quiet[i] : i \in 1 .. Len(quiet)}
                ELSE dropped
  /\ UNCHANGED <<jit_world, init_log, lifecycle, binding, pending, audio_cfg, params, last_error,
                 jits, old_count, qi, audio, ptrace, clean, activate_args>>


\* --------------------------------------------- audio thread: plugin_process

Last(q) == q[Len(q)]

\* Mutant of process_begin: the swap starts at the move of the JIT, without
\* calling the old destroy hook first.
process_begin_no_destroy ==
  /\ lifecycle = "inited" /\ dsp_activated
  /\ audio_pc = "idle"
  /\ audio_pc' = IF reload_pending THEN "swap_jit" ELSE "sync"
  /\ si' = 0
  /\ ptrace' = << [op |-> "begin",
                   id |-> IF ctl_pc = "idle" /\ quiet # <<>> THEN Last(quiet) ELSE 0,
                   args |-> <<>>] >>
  /\ quiet' = <<>>
  /\ clean' = FALSE
  /\ UNCHANGED <<jit_world, init_log, lifecycle, binding, reload_pending, pending, audio_cfg, params,
                 status, jits, ctl, fn, dropped, activate_args>>

\* plugin_process, entry: reload_pending.load(acquire).
process_begin ==
  /\ lifecycle = "inited" /\ dsp_activated
  /\ audio_pc = "idle"
  /\ audio_pc' = IF reload_pending THEN "old_destroy" ELSE "sync"
  /\ si' = 0
  /\ ptrace' = << [op |-> "begin",
                   id |-> IF ctl_pc = "idle" /\ quiet # <<>> THEN Last(quiet) ELSE 0,
                   args |-> <<>>] >>
  /\ quiet' = <<>>
  /\ clean' = FALSE
  /\ UNCHANGED <<jit_world, init_log, lifecycle, binding, reload_pending, pending, audio_cfg, params,
                 status, jits, ctl, fn, dropped, activate_args>>

\* if (dsp_activated && dsp_destroy) dsp_destroy();
process_old_destroy ==
  /\ audio_pc = "old_destroy"
  /\ IF dsp_activated /\ dsp_destroy # 0
       THEN /\ ptrace' = Append(ptrace, Ev("destroy", dsp_destroy))
            /\ hooks' = CallDestroy(dsp_destroy)
       ELSE UNCHANGED <<ptrace, hooks>>
  /\ audio_pc' = "swap_jit"
  /\ UNCHANGED <<jit_world, init_log, lifecycle, binding, reload_pending, pending, sample_rate,
                 min_frames, max_frames, dsp_activated, params,
                 status, jits, ctl, si, fn, quiet, clean, dropped, activate_args>>

\* Mutant of process_swap_jit: the swap takes a lock that do_recompile holds
\* from entry to return.
process_swap_jit_locked ==
  /\ audio_pc = "swap_jit"
  /\ ctl_pc = "idle"
  /\ jit' = pending_jit
  /\ pending_jit' = 0
  /\ alive' = IF jit = pending_jit THEN alive ELSE alive \ {jit}
  /\ ptrace' = Append(ptrace, [op |-> "release", id |-> jit, args |-> <<dsp_destroy>>])
  /\ audio_pc' = "swap_fn"
  /\ UNCHANGED <<jit_world, init_log, lifecycle, process_fn, dsp_init,
                 dsp_destroy, reload_pending, pending_fn, pending_init,
                 pending_destroy, audio_cfg, params, status, ncompiles, exports,
                 ctl, si, fn, quiet, clean, dropped, activate_args>>

\* state->jit = std::move(state->pending_jit): the unique_ptr deletes the
\* instance state->jit held and leaves pending_jit null.
process_swap_jit ==
  /\ audio_pc = "swap_jit"
  /\ jit' = pending_jit
  /\ pending_jit' = 0
  /\ alive' = IF jit = pending_jit THEN alive ELSE alive \ {jit}
  /\ ptrace' = Append(ptrace, [op |-> "release", id |-> jit, args |-> <<dsp_destroy>>])
  /\ audio_pc' = "swap_fn"
  /\ UNCHANGED <<jit_world, init_log, lifecycle, process_fn, dsp_init, dsp_destroy, reload_pending,
                 pending_fn, pending_init, pending_destroy, audio_cfg, params,
                 status, ncompiles, exports, ctl, si, fn, quiet, clean,
                 dropped, activate_args>>

\* Mutant of process_swap_fn: the pointer is moved out of the pending slot
\* as the JIT instance is, leaving null there.
process_swap_fn_moved ==
  /\ audio_pc = "swap_fn"
  /\ process_fn' = pending_fn
  /\ pending_fn' = 0
  /\ ptrace' = Append(ptrace, Ev("store_fn", pending_fn))
  /\ audio_pc' = "swap_init"
  /\ UNCHANGED <<jit_world, init_log, lifecycle, jit, dsp_init, dsp_destroy, reload_pending,
                 pending_jit, pending_init, pending_destroy,
                 audio_cfg, params, status, jits, ctl, si, fn, quiet,
                 clean, dropped, activate_args>>

\* state->process_fn.store(state->pending_fn)
process_swap_fn ==
  /\ audio_pc = "swap_fn"
  /\ process_fn' = pending_fn
  /\ ptrace' = Append(ptrace, Ev("store_fn", pending_fn))
  /\ audio_pc' = "swap_init"
  /\ UNCHANGED <<jit_world, init_log, lifecycle, jit, dsp_init, dsp_destroy, reload_pending, pending,
                 audio_cfg, params, status, jits, ctl, si, fn, quiet,
                 clean, dropped, activate_args>>

\* state->dsp_init = state->pending_init
process_swap_init ==
  /\ audio_pc = "swap_init"
  /\ dsp_init' = pending_init
  /\ audio_pc' = "swap_destroy"
  /\ UNCHANGED <<jit_world, init_log, lifecycle, jit, process_fn, dsp_destroy, reload_pending,
                 pending, audio_cfg, params, status, jits, ctl, si, fn, history>>

\* state->dsp_destroy = state->pending_destroy
process_swap_destroy ==
  /\ audio_pc = "swap_destroy"
  /\ dsp_destroy' = pending_destroy
  /\ audio_pc' = "clear_flag"
  /\ UNCHANGED <<jit_world, init_log, lifecycle, jit, process_fn, dsp_init, reload_pending, pending,
                 audio_cfg, params, status, jits, ctl, si, fn, history>>

\* state->reload_pending.store(false)
process_clear_flag ==
  /\ audio_pc = "clear_flag"
  /\ reload_pending' = FALSE
  /\ audio_pc' = "new_init"
  /\ UNCHANGED <<jit_world, init_log, lifecycle, binding, pending, audio_cfg, params, status, jits,
                 ctl, si, fn, history>>

\* if (dsp_activated && dsp_init) dsp_init(sample_rate, min_frames, max_frames);
\* What init returns is not looked at.
process_new_init ==
  /\ audio_pc = "new_init"
  /\ IF dsp_activated /\ dsp_init # 0
       THEN /\ ptrace' = Append(ptrace,
                 EvInit(dsp_init, <<sample_rate, min_frames, max_frames>>))
            /\ \E init_ok \in BOOLEAN : hooks' = CallInit(dsp_init, init_ok)
       ELSE UNCHANGED <<ptrace, hooks>>
  /\ audio_pc' = "sync"
  /\ UNCHANGED <<jit_world, init_log, lifecycle, binding, reload_pending, pending, sample_rate,
                 min_frames, max_frames, dsp_activated, params,
                 status, jits, ctl, si, fn, quiet, clean, dropped, activate_args>>

\* The loop condition i < gui_params.size() of the parameter sync.
process_sync ==
  /\ audio_pc = "sync"
  /\ audio_pc' = IF si < Len(gui_params) THEN "sync_copy" ELSE "events"
  /\ UNCHANGED <<jit_world, init_log, lifecycle, binding, reload_pending, pending, audio_cfg, params,
                 status, jits, ctl, si, fn, history>>

\* g_params[i] = gui_params[i]; ++i.  An index the vector no longer has
\* (query_dsp_params cleared it after the loop condition was read) reads
\* whatever the vector's storage holds.
process_sync_copy ==
  /\ audio_pc = "sync_copy"
  /\ \E v \in (IF si < Len(gui_params) THEN {gui_params[si + 1]} ELSE ParamValues) :
       g_params' = [g_params EXCEPT ![si + 1] = v]
  /\ si' = si + 1
  /\ audio_pc' = "sync"
  /\ UNCHANGED <<jit_world, init_log, lifecycle, binding, reload_pending, pending, audio_cfg,
                 param_info, gui_params, status, jits, ctl, fn, history>>

\* The in_events loop (at most one CLAP_EVENT_PARAM_VALUE event is modelled),
\* then process_fn.load(acquire).
process_events ==
  /\ audio_pc = "events"
  /\ \/ UNCHANGED <<gui_params, g_params>>
     \/ \E id \in 0 .. MaxParams, v \in ParamValues :
          IF id < Len(gui_params)
            THEN /\ g_params' = [g_params EXCEPT ![id + 1] = v]
                 /\ gui_params' = [gui_params EXCEPT ![id + 1] = v]
            ELSE UNCHANGED <<gui_params, g_params>>
  /\ fn' = process_fn
  /\ audio_pc' = "call"
  /\ UNCHANGED <<jit_world, init_log, lifecycle, binding, reload_pending, pending, audio_cfg,
                 param_info, status, jits, ctl, si, history>>

\* if (!fn) return CLAP_PROCESS_ERROR; the safety checks on the buffers
\* (buffers_ok: they let the call through); then fn(...) is entered.
process_call ==
  /\ audio_pc = "call"
  /\ \E buffers_ok \in BOOLEAN :
       IF fn # 0 /\ buffers_ok
         THEN /\ ptrace' = Append(ptrace, Ev("process", fn))
              /\ audio_pc' = "in_fn"
         ELSE /\ audio_pc' = "idle"
              /\ ptrace' = <<>>
  /\ UNCHANGED <<jit_world, init_log, lifecycle, binding, reload_pending, pending, audio_cfg, params,
                 status, jits, ctl, si, fn, quiet, clean, dropped, activate_args>>

\* fn(...) returns, and plugin_process with it.
process_return ==
  /\ audio_pc = "in_fn"
  /\ audio_pc' = "idle"
  /\ ptrace' = <<>>
  /\ UNCHANGED <<jit_world, init_log, lifecycle, binding, reload_pending, pending, audio_cfg, params,
                 status, jits, ctl, si, fn, quiet, clean, dropped, activate_args>>

\* --------------------------------------------------------- specification

Next ==
  \/ plugin_init
  \/ plugin_activate
  \/ plugin_deactivate
  \/ plugin_destroy
  \/ recompile_begin
  \/ recompile_compile
  \/ recompile_set_fn
  \/ recompile_set_init
  \/ recompile_set_destroy
  \/ recompile_set_jit
  \/ recompile_query
  \/ recompile_query_loop
  \/ recompile_publish
  \/ process_begin
  \/ process_old_destroy
  \/ process_swap_jit
  \/ process_swap_fn
  \/ process_swap_init
  \/ process_swap_destroy
  \/ process_clear_flag
  \/ process_new_init
  \/ process_sync
  \/ process_sync_copy
  \/ process_events
  \/ process_call
  \/ process_return

Spec == Init /\ [][Next]_vars

\* The steps of a plugin_process call that is under way.  The host runs the
\* audio thread, and the process function returns.
AudioRuns ==
  \/ process_old_destroy
  \/ process_swap_jit
  \/ process_swap_fn
  \/ process_swap_init
  \/ process_swap_destroy
  \/ process_clear_flag
  \/ process_new_init
  \/ process_sync
  \/ process_sync_copy
  \/ process_events
  \/ process_call
  \/ process_return

\* The plugin with an audio thread that keeps running; the main thread may
\* stop anywhere, for any length of time (a compile that never finishes).
SpecAudioFair == Spec /\ WF_vars(AudioRuns)

\* ------------------------------------------ the main thread on its own

\* plugin_init and do_recompile of files that may declare more parameters
\* than g_params holds.
plugin_init_many_params == plugin_init_from(ManyParamOutcomes)

recompile_compile_many_params == recompile_compile_from(ManyParamOutcomes)

\* The main thread's compiles, plugin_process not running.
ParamsNext ==
  \/ plugin_init_many_params
  \/ recompile_begin
  \/ recompile_compile_many_params
  \/ recompile_set_fn
  \/ recompile_set_init
  \/ recompile_set_destroy
  \/ recompile_set_jit
  \/ recompile_query
  \/ recompile_query_loop
  \/ recompile_publish

SpecParams == Init /\ [][ParamsNext]_vars

\* ------------------------------------------------ the file-watch timer

\* An editor saves the selected file: its modification time moves on.
save_file ==
  /\ lifecycle = "inited"
  /\ dsp_mtime <= MaxSaves
  /\ dsp_mtime' = dsp_mtime + 1
  /\ saved_at' = ncompiles
  /\ gui_pc' = IF gui_pc = "request" THEN "request_saved"
               ELSE IF gui_pc = "done" THEN "none" ELSE gui_pc
  /\ UNCHANGED <<plugin_vars, cache_vars, path_vars, link_vars, dep_vars,
                 timer_pc, mod_time, entered_at, recompiled_for>>

\* timer_on_timer for the file-watch timer, which plugin_init registers,
\* up to its call of do_recompile or, without one, to its end.  The
\* selected file exists, so last_write_time sets no error.
timer_on_timer ==
  /\ MainIdle /\ timer_pc = "none" /\ gui_pc \in {"none", "done"}
  /\ entered_at' = ncompiles
  /\ gui_pc' = "none"
  /\ IF last_modified # 0 /\ dsp_mtime # last_modified
       THEN /\ ncompiles < MaxCompiles
            /\ mod_time' = dsp_mtime
            /\ timer_pc' = "recompile"
            /\ recompiled_for' = recompiled_for \cup {dsp_mtime}
            /\ UNCHANGED last_modified
       ELSE /\ last_modified' = dsp_mtime
            /\ UNCHANGED <<mod_time, timer_pc, recompiled_for>>
  /\ UNCHANGED <<cache_vars, path_vars, link_vars, dep_vars, dsp_mtime, saved_at,
                 lifecycle, init_log, binding, reload_pending, pending,
                 audio_cfg, params, last_error, compile_success, jits, ctl,
                 audio, history>>

\* timer_on_timer calls do_recompile.
timer_recompile ==
  /\ timer_pc = "recompile" /\ ncompiles = entered_at
  /\ recompile_begin

\* Mutant of timer_return: the time read is not stored after the call.
timer_return_no_store ==
  /\ timer_pc = "recompile" /\ ctl_pc = "idle" /\ ncompiles > entered_at
  /\ timer_pc' = "none"
  /\ mod_time' = 0
  /\ UNCHANGED <<cache_vars, path_vars, link_vars, dep_vars, dsp_mtime, saved_at,
                 entered_at, recompiled_for, gui_pc, last_modified,
                 lifecycle, init_log, binding, reload_pending, pending,
                 audio_cfg, params, last_error, compile_success, jits, ctl,
                 audio, history>>

\* do_recompile has returned to timer_on_timer, which stores the time it
\* read before the call.
timer_return ==
  /\ timer_pc = "recompile" /\ ctl_pc = "idle" /\ ncompiles > entered_at
  /\ last_modified' = mod_time
  /\ timer_pc' = "none"
  /\ mod_time' = 0
  /\ UNCHANGED <<cache_vars, path_vars, link_vars, dep_vars, dsp_mtime, saved_at,
                 entered_at, recompiled_for, gui_pc,
                 lifecycle, init_log, binding, reload_pending, pending,
                 audio_cfg, params, last_error, compile_success, jits, ctl,
                 audio, history>>

\* The GUI's Recompile button: on_recompile calls do_recompile.
gui_recompile ==
  /\ timer_pc = "none" /\ gui_pc = "none"
  /\ recompile_begin

\* The main thread with the timer and the editor, plugin_process not
\* running.
WatchNext ==
  \/ plugin_init
  \/ save_file
  \/ timer_on_timer
  \/ timer_recompile
  \/ timer_return
  \/ gui_recompile
  \/ recompile_compile
  \/ recompile_set_fn
  \/ recompile_set_init
  \/ recompile_set_destroy
  \/ recompile_set_jit
  \/ recompile_query
  \/ recompile_query_loop
  \/ recompile_publish

SpecWatch == Init /\ [][WatchNext]_vars

\* --------------------------------------- the GUI's recompile requests

\* draw_gui_content: the Recompile button is pressed, or a file is
\* selected in the dropdown (the selected file is then one with time t);
\* on_recompile is about to call do_recompile.
gui_request ==
  /\ MainIdle /\ timer_pc = "none" /\ gui_pc \in {"none", "done"}
  /\ ncompiles < MaxCompiles
  /\ gui_pc' = "request"
  /\ entered_at' = ncompiles
  /\ \E t \in 1 .. MaxSaves + 1 : dsp_mtime' = t
  /\ UNCHANGED <<plugin_vars, cache_vars, path_vars, link_vars, dep_vars,
                 saved_at, timer_pc, mod_time, recompiled_for>>

\* on_recompile calls do_recompile.
gui_call ==
  /\ gui_pc \in {"request", "request_saved"} /\ ncompiles = entered_at
  /\ recompile_begin

\* do_recompile has returned to the GUI.
gui_return ==
  /\ gui_pc \in {"request", "request_saved"}
  /\ ctl_pc = "idle" /\ ncompiles > entered_at
  /\ gui_pc' = IF gui_pc = "request" THEN "done" ELSE "none"
  /\ UNCHANGED <<plugin_vars, cache_vars, path_vars, link_vars, dep_vars,
                 dsp_mtime, saved_at, timer_pc, mod_time, entered_at,
                 recompiled_for>>

\* The main thread with the timer, the editor and the GUI's requests,
\* plugin_process not running.
SwitchNext ==
  \/ plugin_init
  \/ save_file
  \/ timer_on_timer
  \/ timer_recompile
  \/ timer_return
  \/ gui_request
  \/ gui_call
  \/ gui_return
  \/ recompile_compile
  \/ recompile_set_fn
  \/ recompile_set_init
  \/ recompile_set_destroy
  \/ recompile_set_jit
  \/ recompile_query
  \/ recompile_query_loop
  \/ recompile_publish

SpecSwitch == Init /\ [][SwitchNext]_vars

\* ======================================================= jit/JIT.cc: paths

\* A path as the caller spells it: absolute or relative, and its components.
\* SourceFile is the spelling the cache is exercised with (test/add.cc).
SourceFile == [abs |-> FALSE, comps |-> <<"test", "add.cc">>]

\* SourcePath.str(): the characters of the spelling.
str(p) == (IF p.abs THEN <<"/">> ELSE <<>>) \o p.comps

\* std::filesystem::path::filename
filename(p) == Last(p.comps)

\* std::hash<std::string>, taken at its best: no two strings share a hash.
hash(string) == string

\* ClapJIT::getCachePath: <<>> is the empty string (caching disabled).
getCachePath(cacheDir, SourcePath) ==
  IF cacheDir = "" THEN <<>>
  ELSE <<cacheDir, filename(SourcePath), hash(str(SourcePath))>>

\* The source files on disk (absolute paths), the directories a process
\* may work in, and the spellings callers use.
SourceFiles == {<<"a", "x.cc">>, <<"b", "x.cc">>, <<"a", "y.cc">>}
WorkingDirs == {<<>>, <<"a">>, <<"b">>}
Spellings ==
  { [abs |-> TRUE, comps |-> f] : f \in SourceFiles }
  \cup { [abs |-> FALSE, comps |-> c] :
           c \in SourceFiles \cup {<<"x.cc">>, <<"y.cc">>} }

\* The file a spelling names in directory dir: the system resolves a
\* relative path against the working directory.
absolute(dir, p) == IF p.abs THEN p.comps ELSE dir \o p.comps

\* The process changes its working directory.
chdir ==
  /\ \E d \in WorkingDirs : d # cwd /\ cwd' = d
  /\ UNCHANGED <<plugin_vars, watch_vars, dep_vars, cache_vars, link_vars, seen>>

\* getCachePath is called with a spelling of an existing source file.
cache_path ==
  /\ \E p \in Spellings :
       /\ absolute(cwd, p) \in SourceFiles
       /\ seen' = seen \cup {[file |-> absolute(cwd, p),
                              path |-> getCachePath("cache", p)]}
  /\ UNCHANGED <<plugin_vars, watch_vars, dep_vars, cache_vars, link_vars, cwd>>

PathNext ==
  \/ chdir
  \/ cache_path

SpecPath == Init /\ [][PathNext]_vars

\* C20: getCachePath is a function of the file: every spelling of one file
\* (relative or absolute, from any working directory) gives one cache path,
\* and two files of the same name in different directories give two.
C20_CachePathByFile ==
  \A e1, e2 \in seen :
    /\ e1.file = e2.file => e1.path = e2.path
    /\ e1.file # e2.file /\ Last(e1.file) = Last(e2.file) => e1.path # e2.path

\* ======================================================= jit/JIT.cc: cache

\* ------------------------------------------------------------------ bounds
MaxClock == 2           \* modification times run from 0 to MaxClock
MaxJITs == 2            \* ClapJIT instances created in one run
MaxCalls == 2           \* addModule calls in one run

\* What the source file holds: two units that compile, one that does not.
SourceTexts == {"add", "gain", "broken"}

\* The cache directory: files can be created in it, or it exists and
\* nothing can be created in it, or it cannot be created.
CacheDirStates == {"writable", "readonly", "blocked"}

\* What can go wrong in compileAndCache apart from the file system.
EmitOutcomes == {"ok", "no_target", "cannot_emit"}

\* A string is the sequence of its pieces, every string cut at the same
\* places: two strings are equal, or one begins with the other, exactly
\* when their sequences are and do; "(" is a piece of its own.
\* llvm::demangle: the name of a C++ function with its parameter list; a
\* name that is no mangled name is returned as it is.
demangle(mangled) ==
  IF mangled = <<"_Z3addii">> THEN <<"add", "(", "int, int)">>
  ELSE IF mangled = <<"_Z7add_cxxii">> THEN <<"add", "_cxx", "(", "int, int)">>
  ELSE IF mangled = <<"_Z8add_cxx2i">> THEN <<"add", "_cxx", "2", "(", "int)">>
  ELSE IF mangled = <<"_Z6squarei">> THEN <<"square", "(", "int)">>
  ELSE IF mangled = <<"_Z14sum_of_squaresii">>
    THEN <<"sum_of_squares", "(", "int, int)">>
  ELSE IF mangled = <<"_Z4initdjj">>
    THEN <<"init", "(", "double, unsigned int, unsigned int)">>
  ELSE IF mangled = <<"_Z7destroyv">> THEN <<"destroy", "(", ")">>
  ELSE IF mangled = <<"_Z7processPKPKfPKPfjj">>
    THEN <<"process", "(",
           "float const* const*, float* const*, unsigned int, unsigned int)">>
  ELSE IF mangled = <<"_Z8get_gainv">> THEN <<"get_gain", "(", ")">>
  ELSE mangled

\* A SymbolEntry of the function with linkable name m.
Sym(m) == [demangled |-> demangle(m), mangled |-> m]

\* The functions a unit defines, in module order.  "add" and "gain" are the
\* texts of SourceFile; the others are the files of the tests: cxx_func.cc,
\* helper.cc, uses_helper.cc, lifecycle_test.cc, cxx_process.cc, and a file
\* of declarations only.
Functions(text) ==
  IF text = "add" THEN <<Sym(<<"_Z3addii">>), Sym(<<"process">>)>>
  ELSE IF text = "gain" THEN <<Sym(<<"process">>)>>
  ELSE IF text = "cxx_func"
    THEN <<Sym(<<"_Z8add_cxx2i">>), Sym(<<"_Z7add_cxxii">>)>>
  ELSE IF text = "helper" THEN <<Sym(<<"_Z6squarei">>)>>
  ELSE IF text = "uses_helper" THEN <<Sym(<<"_Z14sum_of_squaresii">>)>>
  ELSE IF text = "lifecycle"
    THEN <<Sym(<<"init">>), Sym(<<"destroy">>), Sym(<<"is_initialized">>),
           Sym(<<"get_sample_rate">>)>>
  ELSE IF text = "cxx_process"
    THEN <<Sym(<<"_Z4initdjj">>), Sym(<<"_Z7destroyv">>),
           Sym(<<"_Z7processPKPKfPKPfjj">>), Sym(<<"_Z8get_gainv">>)>>
  ELSE <<>>

\* The functions a unit calls and does not define.
References(text) ==
  IF text = "uses_helper" THEN {<<"_Z6squarei">>} ELSE {}

Mangled(syms) == {syms[i].mangled : i \in DOMAIN syms}

\* ------------------------------------------------------------ jit/Error.h

\* ClapErrorCategory().message
ClapErrorCategory(code) ==
  IF code = "TargetCreationFailed" THEN "Failed to create target"
  ELSE IF code = "CompilationFailed" THEN "Compilation failed"
  ELSE IF code = "ModuleGenerationFailed" THEN "Failed to generate module"
  ELSE IF code = "SymbolNotFound" THEN "Symbol not found"
  ELSE "Unknown error"

\* llvm::Error::success(), and an exception that leaves the call.
success_ == [type |-> "success", code |-> "", message |-> <<>>]
exception == [type |-> "exception", code |-> "", message |-> <<>>]

\* makeError: a StringError of the code; message and filePath are strings,
\* <<>> the empty one.
makeError(code, message, filePath) ==
  [type |-> "StringError", code |-> code,
   message |-> <<ClapErrorCategory(code)>>
               \o (IF message # <<>> THEN <<": ">> \o message ELSE <<>>)
               \o (IF filePath # <<>> THEN <<" [file: ">> \o filePath \o <<"]">>
                   ELSE <<>>)]

\* The errors of LLJIT for a symbol defined twice and for a buffer that is
\* no object file, at their most informative: the first names what was
\* being added (Name: the module's source file or the object's buffer).
DuplicateDefinition(SymbolName, Name) ==
  [type |-> "DuplicateDefinition", code |-> "",
   message |-> <<"Duplicate definition of symbol '">> \o SymbolName
               \o <<"' in ">> \o Name]
NotAnObject ==
  [type |-> "StringError", code |-> "",
   message |-> <<"The file was not recognized as a valid object file">>]

\* ------------------------------------------------- ClapJIT::compileSingleFile

\* How far the build of the compile gets, apart from what the source holds:
\* the include directories cannot be listed (the directory iteration
\* throws), the driver builds no compilation, the driver plans no compile
\* job (it takes the file for a linker input), the driver's arguments make
\* no invocation, no diagnostics engine, the action leaves no module; and
\* whether diagnostics were printed into diagOutput by then.
FrontendStages ==
  {"ok", "headers_unreadable", "no_compilation", "no_job", "no_invocation",
   "no_diagnostics", "no_module"}
FrontendOutcomes == [stage : FrontendStages, diagOutput : {<<>>, <<"diagnostic">>}]

\* The frontend with nothing in its way.
FrontendRuns == [stage |-> "ok", diagOutput |-> <<>>]

\* ClapJIT::compileSingleFile: the module (named by the text compiled) or
\* the error returned.  A source that is missing or does not compile fails
\* in ExecuteAction, with the compiler's error in diagOutput.
compileSingleFile(FilePath, src, fe) ==
  LET Failed_(err) ==
        [ok |-> FALSE, M |-> "", err |-> err, diagOutput |-> fe.diagOutput]
      diagOutput == IF ~src.exists \/ src.text = "broken"
                      THEN fe.diagOutput \o <<"error">>
                      ELSE fe.diagOutput
  IN IF fe.stage = "headers_unreadable" THEN Failed_(exception)
     ELSE IF fe.stage = "no_compilation"
       THEN Failed_(makeError("CompilationFailed",
                              <<"Failed to create compilation">>, str(FilePath)))
     ELSE IF fe.stage = "no_job"
       THEN Failed_(makeError("CompilationFailed",
                              <<"Expected exactly one compile job">>, str(FilePath)))
     ELSE IF fe.stage = "no_invocation"
       THEN Failed_(makeError("CompilationFailed",
                              <<"Failed to create CompilerInvocation: ">>
                                \o fe.diagOutput, str(FilePath)))
     ELSE IF fe.stage = "no_diagnostics"
       THEN Failed_(makeError("CompilationFailed",
                              <<"Failed to create diagnostics">>, str(FilePath)))
     ELSE IF ~src.exists \/ src.text = "broken"
       THEN [ok |-> FALSE, M |-> "",
             err |-> makeError("CompilationFailed",
                               <<"Compilation failed">>
                                 \o (IF diagOutput # <<>> THEN <<": ">> \o diagOutput
                                     ELSE <<>>),
                               str(FilePath)),
             diagOutput |-> diagOutput]
     ELSE IF fe.stage = "no_module"
       THEN Failed_(makeError("ModuleGenerationFailed",
                              <<"No module generated after compilation">>,
                              str(FilePath)))
     ELSE [ok |-> TRUE, M |-> src.text, err |-> success_, diagOutput |-> fe.diagOutput]

\* Mutant of isCacheValid: an object as old as the source counts as stale.
isCacheValid_strict(src, obj, CachePath) ==
  IF CachePath = <<>> THEN "false"
  ELSE IF ~obj.exists THEN "false"
  ELSE IF ~src.exists THEN "throws"
  ELSE IF obj.mtime > src.mtime THEN "true"
  ELSE "false"

\* ClapJIT::isCacheValid.  The last_write_time overloads used throw when
\* the file cannot be examined.
isCacheValid(src, obj, CachePath) ==
  IF CachePath = <<>> THEN "false"
  ELSE IF ~obj.exists THEN "false"
  ELSE IF ~src.exists THEN "throws"
  ELSE IF obj.mtime >= src.mtime THEN "true"
  ELSE "false"

\* Mutant of SidecarOf: the loop stops one entry short.
SidecarOf_one_short(syms) ==
  [i \in 1 .. Len(syms) - 1 |-> <<syms[i].demangled, syms[i].mangled>>]

\* A sidecar line is its tab-separated fields.  The lines addModule writes:
SidecarOf(syms) == [i \in DOMAIN syms |-> <<syms[i].demangled, syms[i].mangled>>]

HasTab(line) == Len(line) >= 2

\* The getline loop of addModule: lines without a tab are skipped.
ParseSidecar(lines) ==
  LET tabbed == SelectSeq(lines, HasTab)
  IN [i \in DOMAIN tabbed |-> [demangled |-> tabbed[i][1], mangled |-> tabbed[i][2]]]

\* The symbols the units linked into an LLJIT define.
Defined(units) == UNION {Mangled(Functions(units[i].unit)) : i \in DOMAIN units}

\* addIRModule / addObjectFile: a symbol defined twice is an error.
Duplicate(units, text) == Mangled(Functions(text)) \cap Defined(units) # {}

\* The name of the buffer MemoryBuffer::getFile makes of the cache object:
\* its path, the digits of the hash being one piece.
BufferName(CachePath) == <<CachePath[1], "/", CachePath[2], ".", "hash", ".o">>

\* A symbol of the text that the units linked define already.
DuplicateSymbol(units, text) ==
  CHOOSE m \in Mangled(Functions(text)) \cap Defined(units) : TRUE

\* ClapJIT::loadCachedObject on instance j: the file is read, then handed
\* to addObjectFile.  ret is "ok" or the error returned, err the llvm::Error.
loadCachedObject(j, CachePath, read_ok) ==
  IF ~read_ok
    THEN [ret |-> "Failed to load cached object", linked |-> llJIT_[j],
          err |-> [type |-> "StringError", code |-> "",
                   message |-> <<"Failed to load cached object: ", "errno">>]]
  ELSE IF fs_object.unit = "garbage"
    THEN [ret |-> "not an object file", linked |-> llJIT_[j], err |-> NotAnObject]
  ELSE IF Duplicate(llJIT_[j], fs_object.unit)
    THEN [ret |-> "duplicate definition", linked |-> llJIT_[j],
          err |-> DuplicateDefinition(DuplicateSymbol(llJIT_[j], fs_object.unit),
                                      BufferName(CachePath))]
  ELSE [ret |-> "ok",
        linked |-> Append(llJIT_[j], [from |-> "object", unit |-> fs_object.unit]),
        err |-> success_]

\* ClapJIT::compileAndCache: the error it returns ("throws": an exception
\* of create_directories) and the object file it leaves.
compileAndCache(text, emit) ==
  IF emit = "no_target" THEN [err |-> "error", object |-> fs_object]
  ELSE IF fs_cachedir = "blocked" THEN [err |-> "throws", object |-> fs_object]
  ELSE IF fs_cachedir = "readonly" THEN [err |-> "error", object |-> fs_object]
  ELSE IF emit = "cannot_emit"
    THEN [err |-> "error",
          object |-> [exists |-> TRUE, mtime |-> clock, unit |-> "garbage"]]
  ELSE [err |-> "none",
        object |-> [exists |-> TRUE, mtime |-> clock, unit |-> text]]

\* The result of a call that changes nothing.
NoChange(j, ret) ==
  [ret |-> ret, err |-> IF ret = "exception" THEN exception ELSE success_,
   M |-> "", diagOutput |-> <<>>, compiled |-> FALSE, loaded |-> FALSE,
   symbols |-> symbols_[j], linked |-> llJIT_[j],
   object |-> fs_object, sidecar |-> fs_sidecar,
   wrote_object |-> FALSE, wrote_sidecar |-> FALSE]

\* addModule, the cache hit: the sidecar is read into symbols_, then the
\* result of loadCachedObject is returned.
CacheHit(j, CachePath, read_ok) ==
  LET l == loadCachedObject(j, CachePath, read_ok)
  IN [NoChange(j, l.ret) EXCEPT
        !.err = l.err,
        !.loaded = TRUE,
        !.symbols = symbols_[j] \o ParseSidecar(fs_sidecar.lines),
        !.linked = l.linked]

\* Mutant of CompileFromSource: the new entries replace the table.
CompileFromSource_replace(j, FilePath, src, fe, CachePath, emit, sym_ok) ==
  LET IROrErr == compileSingleFile(FilePath, src, fe)
  IN IF ~IROrErr.ok
    THEN [NoChange(j, IF IROrErr.err = exception THEN "exception"
                      ELSE "Compilation failed") EXCEPT
            !.err = IROrErr.err, !.diagOutput = IROrErr.diagOutput,
            !.compiled = TRUE]
  ELSE
    LET newSymbols == Functions(IROrErr.M)
        c == IF CachePath = <<>> THEN [err |-> "off", object |-> fs_object]
             ELSE compileAndCache(IROrErr.M, emit)
        base == [NoChange(j, "ok") EXCEPT
                   !.M = IROrErr.M,
                   !.diagOutput = IROrErr.diagOutput,
                   !.compiled = TRUE,
                   !.symbols = newSymbols,
                   !.object = c.object,
                   !.wrote_object = (c.err = "none"),
                   !.sidecar = IF c.err = "none" /\ sym_ok
                                 THEN [exists |-> TRUE, lines |-> SidecarOf(newSymbols)]
                                 ELSE fs_sidecar,
                   !.wrote_sidecar = (c.err = "none" /\ sym_ok)]
    IN IF c.err = "throws" THEN [base EXCEPT !.ret = "exception", !.err = exception]
       ELSE IF Duplicate(llJIT_[j], IROrErr.M)
         THEN [base EXCEPT
                 !.ret = "duplicate definition",
                 !.err = DuplicateDefinition(DuplicateSymbol(llJIT_[j], IROrErr.M),
                                             str(FilePath))]
       ELSE [base EXCEPT
               !.linked = Append(llJIT_[j], [from |-> "ir", unit |-> IROrErr.M])]

\* addModule, from "Compile from source" on: FilePath is compiled (src is
\* the file there), its functions entered into symbols_, the object and
\* sidecar written where caching is on, and the module handed to
\* addIRModule, whose error is returned as it is.
CompileFromSource(j, FilePath, src, fe, CachePath, emit, sym_ok) ==
  LET IROrErr == compileSingleFile(FilePath, src, fe)
  IN IF ~IROrErr.ok
    THEN [NoChange(j, IF IROrErr.err = exception THEN "exception"
                      ELSE "Compilation failed") EXCEPT
            !.err = IROrErr.err, !.diagOutput = IROrErr.diagOutput,
            !.compiled = TRUE]
  ELSE
    LET newSymbols == Functions(IROrErr.M)
        c == IF CachePath = <<>> THEN [err |-> "off", object |-> fs_object]
             ELSE compileAndCache(IROrErr.M, emit)
        base == [NoChange(j, "ok") EXCEPT
                   !.M = IROrErr.M,
                   !.diagOutput = IROrErr.diagOutput,
                   !.compiled = TRUE,
                   !.symbols = symbols_[j] \o newSymbols,
                   !.object = c.object,
                   !.wrote_object = (c.err = "none"),
                   !.sidecar = IF c.err = "none" /\ sym_ok
                                 THEN [exists |-> TRUE, lines |-> SidecarOf(newSymbols)]
                                 ELSE fs_sidecar,
                   !.wrote_sidecar = (c.err = "none" /\ sym_ok)]
    IN IF c.err = "throws" THEN [base EXCEPT !.ret = "exception", !.err = exception]
       ELSE IF Duplicate(llJIT_[j], IROrErr.M)
         THEN [base EXCEPT
                 !.ret = "duplicate definition",
                 !.err = DuplicateDefinition(DuplicateSymbol(llJIT_[j], IROrErr.M),
                                             str(FilePath))]
       ELSE [base EXCEPT
               !.linked = Append(llJIT_[j], [from |-> "ir", unit |-> IROrErr.M])]

\* std::string::starts_with
starts_with(string, prefix) ==
  /\ Len(prefix) <= Len(string)
  /\ SubSeq(string, 1, Len(prefix)) = prefix

\* std::nullopt, and an optional that holds a value.
nullopt == [has_value |-> FALSE, value |-> <<>>]
Some(v) == [has_value |-> TRUE, value |-> v]

\* Mutant of EntryMatches: the character after the name is not looked at.
EntryMatches_prefix(demangled, FunctionName) ==
  starts_with(demangled, FunctionName)

\* The test findSymbol makes of one entry.
EntryMatches(demangled, FunctionName) ==
  /\ starts_with(demangled, FunctionName)
  /\ \/ Len(demangled) = Len(FunctionName)
     \/ demangled[Len(FunctionName) + 1] = "("

\* The loop of findSymbol from entry i on.
RECURSIVE findSymbolFrom(_, _, _)
findSymbolFrom(syms, FunctionName, i) ==
  IF i > Len(syms) THEN nullopt
  ELSE IF EntryMatches(syms[i].demangled, FunctionName) THEN Some(syms[i].mangled)
  ELSE findSymbolFrom(syms, FunctionName, i + 1)

\* ClapJIT::findSymbol
findSymbol(syms, FunctionName) == findSymbolFrom(syms, FunctionName, 1)

\* The units of ks that LLJIT can materialize: every function they call is
\* defined by one of them.
RECURSIVE Materializable(_, _)
Materializable(units, ks) ==
  LET defined == UNION {Mangled(Functions(units[k].unit)) : k \in ks}
      good == {k \in ks : References(units[k].unit) \subseteq defined}
  IN IF good = ks THEN ks ELSE Materializable(units, good)

\* ClapJIT::lookup: LLJIT::lookup of a linkable name among the units linked;
\* the address found is the unit and the symbol in it.
lookup(units, SymbolName) ==
  LET ks == {k \in Materializable(units, DOMAIN units) :
               SymbolName \in Mangled(Functions(units[k].unit))}
  IN IF ks = {} THEN [ok |-> FALSE, addr |-> <<0, <<>>>>]
     ELSE [ok |-> TRUE, addr |-> <<CHOOSE k \in ks : TRUE, SymbolName>>]

\* Mutant of lookupFunction: the name itself is looked up first, the symbol
\* table only when that fails.
lookupFunction_direct_first(syms, units, FunctionName) ==
  LET mangled == findSymbol(syms, FunctionName)
  IN IF lookup(units, FunctionName).ok \/ ~mangled.has_value
       THEN lookup(units, FunctionName)
     ELSE lookup(units, mangled.value)

\* ClapJIT::lookupFunction: the name found in the symbol table, or else the
\* name itself, is looked up.
lookupFunction(syms, units, FunctionName) ==
  LET mangled == findSymbol(syms, FunctionName)
  IN IF mangled.has_value THEN lookup(units, mangled.value)
     ELSE lookup(units, FunctionName)

\* Mutant of AddModule: a valid object is loaded without looking for the
\* sidecar.
AddModule_no_sidecar_check(j, FilePath, src, fe, emit, sym_ok, read_ok) ==
  LET CachePath == getCachePath(options_[j].cacheDir, FilePath)
      valid == isCacheValid(src, fs_object, CachePath)
  IN IF valid = "throws" THEN NoChange(j, "exception")
     ELSE IF valid = "true" THEN CacheHit(j, CachePath, read_ok)
     ELSE CompileFromSource(j, FilePath, src, fe, CachePath, emit, sym_ok)

\* ClapJIT::addModule(FilePath) on instance j, as one call; src is the file
\* at FilePath.  fs_object and fs_sidecar are the cache files of SourceFile:
\* another file is added with caching off only.
AddModule(j, FilePath, src, fe, emit, sym_ok, read_ok) ==
  LET CachePath == getCachePath(options_[j].cacheDir, FilePath)
      valid == isCacheValid(src, fs_object, CachePath)
  IN IF valid = "throws" THEN NoChange(j, "exception")
     ELSE IF valid = "true" /\ fs_sidecar.exists THEN CacheHit(j, CachePath, read_ok)
     ELSE CompileFromSource(j, FilePath, src, fe, CachePath, emit, sym_ok)

Files == <<fs_source, fs_object, fs_sidecar>>

\* ClapJIT::create(opts), with caching off or on.
create ==
  /\ Len(options_) < MaxJITs
  /\ \E dir \in {"", "cache"} :
       options_' = Append(options_, [cacheDir |-> dir])
  /\ symbols_' = Append(symbols_, <<>>)
  /\ llJIT_' = Append(llJIT_, <<>>)
  /\ UNCHANGED <<plugin_vars, watch_vars, dep_vars, path_vars, link_vars, clock, Files, fs_cachedir, calls>>

\* What is kept of a call of addModule on instance j that came to r.
CallRecord(j, r) ==
  [jit |-> j, ret |-> r.ret, err |-> r.err, compiled |-> r.compiled,
   loaded |-> r.loaded,
   added |-> SubSeq(r.symbols, Len(symbols_[j]) + 1, Len(r.symbols)),
   linked |-> SubSeq(r.linked, Len(llJIT_[j]) + 1, Len(r.linked)),
   wrote_object |-> r.wrote_object,
   wrote_sidecar |-> r.wrote_sidecar,
   pre |-> Files,
   post |-> <<fs_source, r.object, r.sidecar>>]

\* A call of addModule(SourceFile) on one of the instances.
addModule ==
  /\ Len(calls) < MaxCalls
  /\ \E j \in DOMAIN options_, emit \in EmitOutcomes, sym_ok, read_ok \in BOOLEAN :
       LET r == AddModule(j, SourceFile, fs_source, FrontendRuns, emit, sym_ok, read_ok)
       IN /\ symbols_' = [symbols_ EXCEPT ![j] = r.symbols]
          /\ llJIT_' = [llJIT_ EXCEPT ![j] = r.linked]
          /\ fs_object' = r.object
          /\ fs_sidecar' = r.sidecar
          /\ calls' = Append(calls, CallRecord(j, r))
  /\ UNCHANGED <<plugin_vars, watch_vars, dep_vars, path_vars, link_vars, clock, fs_source, fs_cachedir, options_>>

\* Time passes.
tick ==
  /\ clock < MaxClock
  /\ clock' = clock + 1
  /\ UNCHANGED <<plugin_vars, watch_vars, dep_vars, path_vars, link_vars, Files, fs_cachedir, options_,
                 symbols_, llJIT_, calls>>

\* The user saves the source file.
edit_source ==
  /\ \E t \in SourceTexts :
       fs_source' = [exists |-> TRUE, mtime |-> clock, text |-> t]
  /\ UNCHANGED <<plugin_vars, watch_vars, dep_vars, path_vars, link_vars, clock, fs_object, fs_sidecar,
                 fs_cachedir, options_, symbols_, llJIT_, calls>>

\* The user deletes the source file.
remove_source ==
  /\ fs_source.exists
  /\ fs_source' = [exists |-> FALSE, mtime |-> 0, text |-> ""]
  /\ UNCHANGED <<plugin_vars, watch_vars, dep_vars, path_vars, link_vars, clock, fs_object, fs_sidecar,
                 fs_cachedir, options_, symbols_, llJIT_, calls>>

\* The cache object is cut short (a process killed while it wrote it).
damage_object ==
  /\ fs_object.exists /\ fs_object.unit # "garbage"
  /\ fs_object' = [exists |-> TRUE, mtime |-> clock, unit |-> "garbage"]
  /\ UNCHANGED <<plugin_vars, watch_vars, dep_vars, path_vars, link_vars, clock, fs_source, fs_sidecar,
                 fs_cachedir, options_, symbols_, llJIT_, calls>>

\* The sidecar is cut short inside its last line, before the tab.
truncate_sidecar ==
  /\ fs_sidecar.exists /\ fs_sidecar.lines # <<>>
  /\ HasTab(Last(fs_sidecar.lines))
  /\ fs_sidecar' = [fs_sidecar EXCEPT
       !.lines[Len(fs_sidecar.lines)] = <<Last(fs_sidecar.lines)[1]>>]
  /\ UNCHANGED <<plugin_vars, watch_vars, dep_vars, path_vars, link_vars, clock, fs_source, fs_object,
                 fs_cachedir, options_, symbols_, llJIT_, calls>>

\* The source file holds any of the texts; the cache directory is empty
\* and in any of its states.
CacheInit ==
  /\ NewPluginState /\ PathFresh /\ LinkFresh /\ WatchFresh /\ DepsFresh
  /\ clock = 0
  /\ \E t \in SourceTexts : fs_source = [exists |-> TRUE, mtime |-> 0, text |-> t]
  /\ fs_object = [exists |-> FALSE, mtime |-> 0, unit |-> ""]
  /\ fs_sidecar = [exists |-> FALSE, lines |-> <<>>]
  /\ fs_cachedir \in CacheDirStates
  /\ options_ = <<>> /\ symbols_ = <<>> /\ llJIT_ = <<>>
  /\ calls = <<>>

CacheNext ==
  \/ create
  \/ addModule
  \/ tick
  \/ edit_source
  \/ remove_source
  \/ damage_object
  \/ truncate_sidecar

SpecCache == CacheInit /\ [][CacheNext]_vars

\* ---------------------------------- the cache and what an object is from

\* A call of addModule(SourceFile) on one of the instances, the compiler
\* and the cache directory in order; the source includes the lib/ header.
addModule_deps ==
  /\ Len(calls) < MaxCalls
  /\ \E j \in DOMAIN options_ :
       LET r == AddModule(j, SourceFile, fs_source, FrontendRuns, "ok", TRUE, TRUE)
       IN /\ symbols_' = [symbols_ EXCEPT ![j] = r.symbols]
          /\ llJIT_' = [llJIT_ EXCEPT ![j] = r.linked]
          /\ fs_object' = r.object
          /\ fs_sidecar' = r.sidecar
          /\ calls' = Append(calls, CallRecord(j, r))
          /\ built_from' = IF r.wrote_object THEN Deps(fs_header, options_[j])
                           ELSE built_from
          /\ last_link' = [hit |-> r.loaded /\ r.ret = "ok",
                           built |-> built_from,
                           wanted |-> Deps(fs_header, options_[j])]
  /\ UNCHANGED <<plugin_vars, watch_vars, path_vars, link_vars, clock,
                 fs_source, fs_cachedir, options_, fs_header>>

\* The user saves the header in lib/ that the source includes.
edit_header ==
  /\ fs_header < MaxHeaderEdits
  /\ fs_header' = fs_header + 1
  /\ UNCHANGED <<plugin_vars, watch_vars, cache_vars, path_vars, link_vars,
                 built_from, last_link>>

\* Three ClapJIT instances that cache in one directory, the last created
\* with another language standard; the source file holds any of the texts.
DepsInit ==
  /\ NewPluginState /\ PathFresh /\ LinkFresh /\ WatchFresh /\ DepsFresh
  /\ clock = 0
  /\ \E t \in SourceTexts : fs_source = [exists |-> TRUE, mtime |-> 0, text |-> t]
  /\ fs_object = [exists |-> FALSE, mtime |-> 0, unit |-> ""]
  /\ fs_sidecar = [exists |-> FALSE, lines |-> <<>>]
  /\ fs_cachedir = "writable"
  /\ options_ = <<[cacheDir |-> "cache", langStandard |-> "CXX20"],
                  [cacheDir |-> "cache", langStandard |-> "CXX20"],
                  [cacheDir |-> "cache", langStandard |-> "CXX17"]>>
  /\ symbols_ = <<<<>>, <<>>, <<>>>>
  /\ llJIT_ = <<<<>>, <<>>, <<>>>>
  /\ calls = <<>>

DepsNext ==
  \/ addModule_deps
  \/ edit_header
  \/ edit_source
  \/ tick

SpecDeps == DepsInit /\ [][DepsNext]_vars

\* ===================================================== jit/JIT.cc: linking

\* ------------------------------------------------------------------ bounds
MaxAdds == 3            \* addModule calls made through addModules in one run
MaxFrontendAdds == 2    \* addModule calls in a run that varies the frontend

\* The source files of the tests, and what each holds.
TestFiles ==
  {"cxx_func.cc", "helper.cc", "uses_helper.cc", "lifecycle_test.cc",
   "cxx_process.cc", "decls.cc"}

TextOf(name) ==
  IF name = "cxx_func.cc" THEN "cxx_func"
  ELSE IF name = "helper.cc" THEN "helper"
  ELSE IF name = "uses_helper.cc" THEN "uses_helper"
  ELSE IF name = "lifecycle_test.cc" THEN "lifecycle"
  ELSE IF name = "cxx_process.cc" THEN "cxx_process"
  ELSE "decls"

\* The paths handed to addModules: the test files and one that is missing.
TestPath(name) == [abs |-> FALSE, comps |-> <<"test", name>>]
TestPaths == {TestPath(name) : name \in TestFiles \cup {"missing.cc"}}

\* The file at a path.
FileAt(FilePath) ==
  IF filename(FilePath) \in TestFiles
    THEN [exists |-> TRUE, mtime |-> 0, text |-> TextOf(filename(FilePath))]
  ELSE [exists |-> FALSE, mtime |-> 0, text |-> ""]

\* The sample rates init is called with.
Rates == {44, 48}

\* The functions of lifecycle_test.cc and cxx_process.cc that touch their
\* static variables: what a call of the function at a linkable name does
\* to them and returns.
Run(SymbolName, rate, st) ==
  IF SymbolName = <<"init">>
    THEN [st |-> [st EXCEPT !.g_sample_rate = rate, !.g_initialized = TRUE],
          value |-> <<TRUE>>]
  ELSE IF SymbolName = <<"destroy">>
    THEN [st |-> [st EXCEPT !.g_initialized = FALSE, !.g_sample_rate = 0],
          value |-> <<>>]
  ELSE IF SymbolName = <<"is_initialized">>
    THEN [st |-> st, value |-> <<st.g_initialized>>]
  ELSE IF SymbolName = <<"get_sample_rate">>
    THEN [st |-> st, value |-> <<st.g_sample_rate>>]
  ELSE IF SymbolName = <<"_Z4initdjj">>
    THEN [st |-> [st EXCEPT !.gain = 5], value |-> <<TRUE>>]
  ELSE IF SymbolName = <<"_Z7destroyv">>
    THEN [st |-> [st EXCEPT !.gain = 10], value |-> <<>>]
  ELSE IF SymbolName = <<"_Z8get_gainv">>
    THEN [st |-> st, value |-> <<st.gain>>]
  ELSE [st |-> st, value |-> <<>>]

\* The names the tests look up and call.
CalledNames == {<<"init">>, <<"destroy">>}

\* lookupAs<F>(FunctionName) on instance j, and a call of the function
\* found with the arguments (rate, 64, 1024) where it takes any.
Call(j, FunctionName, rate) ==
  LET AddrOrErr == lookupFunction(symbols_[j], llJIT_[j], FunctionName)
  IN IF AddrOrErr.ok
       THEN [ok |-> TRUE, symbol |-> AddrOrErr.addr[2],
             r |-> Run(AddrOrErr.addr[2], rate, statics[j])]
     ELSE [ok |-> FALSE, symbol |-> <<>>, r |-> [st |-> statics[j], value |-> <<>>]]

\* Mutant of AddOne: the loop of addModules goes on to the next path after
\* an error.
AddOne_goes_on(j, FilePath, fe, rest) ==
  LET r == AddModule(j, FilePath, FileAt(FilePath), fe, "ok", TRUE, TRUE)
  IN /\ symbols_' = [symbols_ EXCEPT ![j] = r.symbols]
     /\ llJIT_' = [llJIT_ EXCEPT ![j] = r.linked]
     /\ last_add' =
          [jit |-> j, FilePath |-> str(FilePath), M |-> r.M, ret |-> r.ret,
           err |-> r.err, diagOutput |-> r.diagOutput,
           added |-> SubSeq(r.symbols, Len(symbols_[j]) + 1, Len(r.symbols)),
           linked |-> SubSeq(r.linked, Len(llJIT_[j]) + 1, Len(r.linked))]
     /\ queue' = IF rest # <<>>
                   THEN [jit |-> j, FilePaths |-> rest]
                 ELSE NoQueue
     /\ adds' = adds + 1

\* addModule(FilePath) on instance j with the frontend as fe says; rest are
\* the paths addModules has still to add after it.
AddOne(j, FilePath, fe, rest) ==
  LET r == AddModule(j, FilePath, FileAt(FilePath), fe, "ok", TRUE, TRUE)
  IN /\ symbols_' = [symbols_ EXCEPT ![j] = r.symbols]
     /\ llJIT_' = [llJIT_ EXCEPT ![j] = r.linked]
     /\ last_add' =
          [jit |-> j, FilePath |-> str(FilePath), M |-> r.M, ret |-> r.ret,
           err |-> r.err, diagOutput |-> r.diagOutput,
           added |-> SubSeq(r.symbols, Len(symbols_[j]) + 1, Len(r.symbols)),
           linked |-> SubSeq(r.linked, Len(llJIT_[j]) + 1, Len(r.linked))]
     /\ queue' = IF r.ret = "ok" /\ rest # <<>>
                   THEN [jit |-> j, FilePaths |-> rest]
                 ELSE NoQueue
     /\ adds' = adds + 1

\* addModules(FilePaths) is called on an instance, with one path (which is
\* addModule) or two: the first turn of its loop.
addModules ==
  /\ queue.jit = 0
  /\ adds < MaxAdds
  /\ \E j \in DOMAIN options_, p1 \in TestPaths :
       \/ AddOne(j, p1, FrontendRuns, <<>>)
       \/ /\ adds + 1 < MaxAdds
          /\ \E p2 \in TestPaths : AddOne(j, p1, FrontendRuns, <<p2>>)
  /\ UNCHANGED <<plugin_vars, watch_vars, dep_vars, path_vars, clock, Files, fs_cachedir, options_,
                 calls, statics, life>>

\* The next turn of the loop of addModules; the call returns with the first
\* error or after the last path.
addModules_loop ==
  /\ queue.jit # 0
  /\ AddOne(queue.jit, Head(queue.FilePaths), FrontendRuns, Tail(queue.FilePaths))
  /\ UNCHANGED <<plugin_vars, watch_vars, dep_vars, path_vars, clock, Files, fs_cachedir, options_,
                 calls, statics, life>>

\* addModule(FilePath) with the frontend in any condition.
addModule_any_frontend ==
  /\ queue.jit = 0
  /\ adds < MaxFrontendAdds
  /\ \E j \in DOMAIN options_, p \in TestPaths, fe \in FrontendOutcomes :
       AddOne(j, p, fe, <<>>)
  /\ UNCHANGED <<plugin_vars, watch_vars, dep_vars, path_vars, clock, Files, fs_cachedir, options_,
                 calls, statics, life>>

\* Mutant of call: the units' static variables exist once for the process,
\* not once for each instance the units are linked into.
call_one_copy ==
  /\ queue.jit = 0
  /\ \E j \in DOMAIN options_, FunctionName \in CalledNames, rate \in Rates :
       LET c == Call(j, FunctionName, rate)
       IN /\ c.ok
          /\ statics' = [k \in DOMAIN statics |-> c.r.st]
          /\ life' = [life EXCEPT ![j] = [symbol |-> c.symbol, rate |-> rate]]
  /\ UNCHANGED <<plugin_vars, watch_vars, dep_vars, cache_vars, path_vars, queue, adds, last_add>>

\* A test looks up init or destroy on an instance and calls it.
call ==
  /\ queue.jit = 0
  /\ \E j \in DOMAIN options_, FunctionName \in CalledNames, rate \in Rates :
       LET c == Call(j, FunctionName, rate)
       IN /\ c.ok
          /\ statics' = [statics EXCEPT ![j] = c.r.st]
          /\ life' = [life EXCEPT ![j] = [symbol |-> c.symbol, rate |-> rate]]
  /\ UNCHANGED <<plugin_vars, watch_vars, dep_vars, cache_vars, path_vars, queue, adds, last_add>>

\* Two ClapJIT instances created with the default options (no cache
\* directory), nothing added.
LinkInit ==
  /\ NewPluginState /\ PathFresh /\ WatchFresh /\ DepsFresh
  /\ clock = 0
  /\ fs_source = [exists |-> TRUE, mtime |-> 0, text |-> "add"]
  /\ fs_object = [exists |-> FALSE, mtime |-> 0, unit |-> ""]
  /\ fs_sidecar = [exists |-> FALSE, lines |-> <<>>]
  /\ fs_cachedir = "writable"
  /\ options_ = <<[cacheDir |-> ""], [cacheDir |-> ""]>>
  /\ symbols_ = <<<<>>, <<>>>>
  /\ llJIT_ = <<<<>>, <<>>>>
  /\ calls = <<>>
  /\ queue = NoQueue /\ adds = 0 /\ last_add = NoAdd
  /\ statics = <<InitialStatics, InitialStatics>>
  /\ life = <<[symbol |-> <<>>, rate |-> 0], [symbol |-> <<>>, rate |-> 0]>>

LinkNext ==
  \/ addModules
  \/ addModules_loop
  \/ call

SpecLink == LinkInit /\ [][LinkNext]_vars

SpecCompile == LinkInit /\ [][addModule_any_frontend]_vars

\* ------------------------------------------------------------ the claims

\* The compiles that succeeded so far, and the last of them.
OkCompiles == {c \in 1 .. ncompiles : exports[c].ok}
LastOk == CHOOSE c \in OkCompiles : \A d \in OkCompiles : d <= c

\* <<jit, process_fn, dsp_init, dsp_destroy>> as compile c resolved them.
BindingOf(c) == <<c, c, exports[c].init, exports[c].destroy>>

\* plugin_process is at a call through the binding's pointers.
AtCall == audio_pc \in {"old_destroy", "new_init", "call", "in_fn"}

\* C1: at every call plugin_process makes through the binding, process_fn,
\* dsp_init and dsp_destroy are the three pointers of one compile result.
C1_OneCompile ==
  AtCall =>
    \E c \in OkCompiles :
      <<process_fn, dsp_init, dsp_destroy>> =
        <<c, exports[c].init, exports[c].destroy>>

\* C2: every pointer plugin_process calls belongs to a ClapJIT instance
\* that has not been destroyed.
C2_PointersAlive ==
  /\ audio_pc = "old_destroy" /\ dsp_activated /\ dsp_destroy # 0
       => dsp_destroy \in alive
  /\ audio_pc = "new_init" /\ dsp_activated /\ dsp_init # 0
       => dsp_init \in alive
  /\ audio_pc = "in_fn" => fn \in alive

\* C3: a published binding is never lost: when neither handler is running
\* and no swap is pending, the active binding is that of the last
\* successful compile (otherwise no later plugin_process call installs it).
C3_LastCompileApplied ==
  lifecycle = "inited" /\ ctl_pc = "idle" /\ audio_pc = "idle" /\ ~reload_pending
    => binding = BindingOf(LastOk)

\* A step of do_recompile (the main thread's other entry points leave its
\* locals alone).
RecompileStep == ctl' # ctl

\* do_recompile returns from a compile_dsp that failed.
FailedReturn == ctl_pc = "compile" /\ ctl_pc' = "idle"

\* Every pointer of the binding and of the pending slot.
Pointers ==
  {jit, process_fn, dsp_init, dsp_destroy,
   pending_jit, pending_fn, pending_init, pending_destroy} \ {0}

\* C4: a do_recompile whose compile_dsp fails leaves the active binding,
\* the pending slot and reload_pending as they were (both its steps: entry
\* and the failed return), and no pointer of a failed compile is ever held.
C4_FailedCompileKeepsAll ==
  /\ [][(FailedReturn \/ (ctl_pc = "idle" /\ ctl_pc' = "compile"))
          => UNCHANGED <<binding, pending, reload_pending>>]_vars
  /\ [](Pointers \subseteq OkCompiles)

\* C4 witness: a failed do_recompile has returned while a swap is pending.
C4_Witness ==
  /\ lifecycle = "inited" /\ ctl_pc = "idle"
  /\ last_error # "" /\ reload_pending /\ pending_jit # 0

\* Position of an event in the order the swap must keep.
Rank(op) ==
  CASE op = "begin" -> 0
    [] op = "destroy" -> 1
    [] op = "release" -> 2
    [] op = "store_fn" -> 3
    [] op = "init" -> 4
    [] op = "process" -> 5

Swapped == \E i \in DOMAIN ptrace : ptrace[i].op = "store_fn"

\* C5: within one plugin_process call that swaps: the old destroy hook,
\* then the release of the old JIT and the store of the pointers, then the
\* new init hook with the arguments of the last plugin_activate, then the
\* process function.  A JIT whose binding has a destroy hook is released
\* only after that hook was called, and a process function whose binding
\* has an init hook is first called only after that hook was.
C5_SwapOrder ==
  /\ \A i, j \in DOMAIN ptrace :
       i < j => Rank(ptrace[i].op) < Rank(ptrace[j].op)
  /\ \A i \in DOMAIN ptrace :
       /\ ptrace[i].op = "init" => ptrace[i].args = activate_args
       /\ ptrace[i].op = "release" /\ ptrace[i].args[1] # 0 =>
            \E k \in 1 .. i - 1 :
              ptrace[k].op = "destroy" /\ ptrace[k].id = ptrace[i].args[1]
       /\ ptrace[i].op = "process" /\ Swapped /\ dsp_init # 0 =>
            \E k \in 1 .. i - 1 :
              /\ ptrace[k].op = "init" /\ ptrace[k].id = dsp_init
              /\ ptrace[k].args = <<sample_rate, min_frames, max_frames>>

\* C5 witness: a swapping call has gone through all four stages and runs
\* the new process function.
C5_Witness ==
  /\ audio_pc = "in_fn"
  /\ \A op \in {"destroy", "release", "store_fn", "init", "process"} :
       \E i \in DOMAIN ptrace : ptrace[i].op = op

\* plugin_process is at one of the four stores of the swap.
InSwap == audio_pc \in {"swap_jit", "swap_fn", "swap_init", "swap_destroy"}

\* C6: no step of do_recompile changes jit, process_fn, dsp_init or
\* dsp_destroy; after plugin_init only the swap in plugin_process does.
C6_BindingWrittenBySwapOnly ==
  /\ [][RecompileStep => UNCHANGED binding]_vars
  /\ [][binding' # binding => (lifecycle = "created" \/ InSwap)]_vars

\* C6 witness: a do_recompile has succeeded and the previous binding is
\* still the active one, in the middle of a plugin_process call.
C6_Witness ==
  /\ ctl_pc = "idle" /\ reload_pending /\ pending_jit # 0
  /\ audio_pc = "in_fn" /\ binding = BindingOf(1) /\ pending_jit # jit

\* C7: the control path changes nothing the running binding reads but the
\* pending slot and reload_pending: g_params and gui_params keep their
\* values across do_recompile until the swap.
C7_ParamsKeptUntilSwap ==
  [][RecompileStep => UNCHANGED <<binding, audio_cfg, g_params, gui_params>>]_vars

\* Every place a pointer can be called from or copied out of.
Held == Pointers \cup ({fn} \ {0})

\* C8: do_recompile calls that succeed with no plugin_process call between
\* them leave the pending slot holding the last one's binding alone; a
\* plugin_process call that follows, with do_recompile at rest, runs that
\* binding; and nothing holds a pointer of a replaced one, whose JIT is
\* gone, so none of its functions is ever called.
C8_LastPendingWins ==
  /\ ctl_pc = "idle" /\ quiet # <<>> =>
       reload_pending /\ pending = BindingOf(Last(quiet))
  /\ audio_pc = "in_fn" /\ ptrace[1].id # 0 =>
       fn = ptrace[1].id /\ binding = BindingOf(ptrace[1].id)
  /\ dropped \cap (Held \cup alive) = {}

\* C8 witness: two do_recompile calls succeeded back to back, and the
\* plugin_process call after them runs the second one's process function.
C8_Witness ==
  /\ dropped = {2}
  /\ audio_pc = "in_fn" /\ ptrace[1].id = 3 /\ fn = 3

\* C11: plugin_process never waits for the control path: whatever
\* do_recompile is doing, and even if it never takes another step, the next
\* step of a call under way can be taken and the call runs to its end; and
\* where it calls the process function that is the active binding's, which
\* is never null.
C11_NeverWaits ==
  /\ [](audio_pc # "idle" => ENABLED AudioRuns)
  /\ []<>(audio_pc = "idle")
  /\ [](audio_pc = "call" => fn # 0 /\ fn = process_fn)

\* C11 witness: the process function of the binding of plugin_init runs
\* while do_recompile is inside compile_dsp.
C11_Witness ==
  ctl_pc = "compile" /\ audio_pc = "in_fn" /\ fn = 1 /\ binding = BindingOf(1)

\* C12: a do_recompile whose compile fails leaves param_info, gui_params
\* and g_params as they were (neither of its steps writes them), and returns
\* with compile_success false and a last_error that is not empty.
C12_FailedCompileKeepsParams ==
  /\ [][(FailedReturn \/ (ctl_pc = "idle" /\ ctl_pc' = "compile"))
          => UNCHANGED params]_vars
  /\ [][FailedReturn => last_error' # "" /\ ~compile_success']_vars

\* C12 witness: a failed do_recompile has returned to a plugin that exports
\* a parameter whose value the host has changed.
C12_Witness ==
  /\ lifecycle = "inited" /\ ctl_pc = "idle" /\ last_error # ""
  /\ Len(param_info) = 1 /\ gui_params = <<10>> /\ param_info[1].default_value = 5

\* The errors of compile_dsp.
CompileErrors ==
  {"JIT create error", "Symbol define error", "Lib compile error",
   "Compile error", "Lookup error"}

\* C13 as stated: plugin_init fails only when `process` cannot be resolved
\* (required-symbol-not-found is the only error that prevents activation).
C13_OnlyMissingProcessFails ==
  lifecycle = "init_failed" => init_log = "Lookup error"

\* C13 as amended: plugin_init fails, and installs no binding, if and only
\* if its compile_dsp yields no process function, which is the case for every
\* error of compile_dsp, the failed lookup of `process` being one of them.
C13_InitFailsIffNoProcess ==
  /\ lifecycle = "init_failed" =>
       /\ ~exports[1].ok /\ init_log \in CompileErrors
       /\ binding = <<0, 0, 0, 0>> /\ alive = {}
  /\ lifecycle \in {"inited", "destroyed"} =>
       exports[1].ok /\ init_log = "Init success!"
  /\ lifecycle = "created" => ncompiles = 0

\* C13 witness: plugin_init has failed on a compile error of the source.
C13_Witness == lifecycle = "init_failed" /\ init_log = "Compile error"

\* C10: whenever plugin_process can observe reload_pending with no
\* do_recompile in progress, the pending slot is complete: pending_jit and
\* pending_fn are non-null and the four fields are one compile's.
C10_PendingComplete ==
  lifecycle = "inited" /\ reload_pending /\ ctl_pc = "idle" /\ audio_pc = "idle"
    => \E c \in OkCompiles : pending = BindingOf(c)

\* ------------------------------------------- the claims about the cache

\* The cache path instance j uses for SourceFile, and whether it caches.
CachePathOf(j) == getCachePath(options_[j].cacheDir, SourceFile)
Caching(j) == options_[j].cacheDir # ""

\* Call i is the first addModule of its instance.
FirstOn(i) == \A k \in 1 .. i - 1 : calls[k].jit # calls[i].jit

\* The source file is there and compiles.
GoodSource(src) == src.exists /\ src.text # "broken"

\* What isCacheValid said at the start of a call.
ValidAt(c) == isCacheValid(c.pre[1], c.pre[2], CachePathOf(c.jit))

C15_CheckErrorIsMiss ==
  /\ \A j \in DOMAIN options_ :
       isCacheValid(fs_source, fs_object, CachePathOf(j)) \in {"true", "false"}
  /\ \A i \in DOMAIN calls :
       Caching(calls[i].jit) /\ calls[i].pre[2].exists /\ ~calls[i].pre[1].exists
       => calls[i].compiled /\ calls[i].ret # "exception"

\* C16: a cache entry judged valid whose object cannot be read or linked is
\* no failure of addModule: the call compiles the source instead and
\* succeeds.
C16_CacheErrorFallsBack ==
  \A i \in DOMAIN calls :
    /\ FirstOn(i) /\ GoodSource(calls[i].pre[1])
    /\ ValidAt(calls[i]) = "true" /\ calls[i].pre[3].exists
    => calls[i].ret = "ok" /\ calls[i].linked # <<>>

\* C17: with a valid object and its sidecar present, addModule does not
\* compile: it appends one symbol entry for each sidecar line that has a
\* tab, in file order, and hands the object to the linker; with an invalid
\* object or no sidecar it compiles from source and loads nothing.
C17_HitSkipsCompiler ==
  \A i \in DOMAIN calls :
    LET c == calls[i]
        tabbed == SelectSeq(c.pre[3].lines, HasTab)
    IN /\ ValidAt(c) = "true" /\ c.pre[3].exists =>
            /\ ~c.compiled /\ c.loaded
            /\ Len(c.added) = Len(tabbed)
            /\ \A k \in DOMAIN tabbed :
                 c.added[k] = [demangled |-> tabbed[k][1], mangled |-> tabbed[k][2]]
            /\ c.ret = "ok" =>
                 c.linked = <<[from |-> "object", unit |-> c.pre[2].unit]>>
            /\ c.post = c.pre
       /\ ValidAt(c) = "false" \/ (ValidAt(c) = "true" /\ ~c.pre[3].exists) =>
            c.compiled /\ ~c.loaded

\* C17 witness: a call found a valid object and a sidecar of two lines, the
\* second cut short before its tab; it took one entry from it and linked
\* the object.
C17_Witness ==
  \E i \in DOMAIN calls :
    /\ calls[i].loaded /\ calls[i].ret = "ok"
    /\ Len(calls[i].pre[3].lines) = 2 /\ Len(calls[i].added) = 1

\* The names looked up through lookupFunction.
FunctionNames == {<<"add">>, <<"process">>, <<"mul">>}

\* Two first calls leave their instances resolving the same functions.
SameFunctions(c1, c2) ==
  \A n \in FunctionNames :
    lookupFunction(c1.added, c1.linked, n) = lookupFunction(c2.added, c2.linked, n)

\* Calls i and k are the first addModule of two caching instances, i before
\* k, the first successful, on the same source (same text, same time).
RoundTrip(i, k) ==
  /\ i < k /\ calls[i].jit # calls[k].jit
  /\ FirstOn(i) /\ FirstOn(k)
  /\ Caching(calls[i].jit) /\ Caching(calls[k].jit)
  /\ calls[i].ret = "ok"
  /\ calls[k].pre[1] = calls[i].pre[1]

\* The second call hit the cache and left the same symbols and functions.
SecondFromCache(i, k) ==
  /\ calls[i].post[2].exists
  /\ calls[k].loaded /\ ~calls[k].compiled
  /\ calls[k].added = calls[i].added
  /\ SameFunctions(calls[i], calls[k])

C19_WriteFailureNonFatal ==
  \A i \in DOMAIN calls :
    LET c == calls[i] IN
      /\ c.wrote_sidecar => c.wrote_object
      /\ FirstOn(i) /\ Caching(c.jit) /\ GoodSource(c.pre[1]) /\ c.compiled
           /\ ~c.wrote_object
         => /\ c.ret = "ok"
            /\ c.linked = <<[from |-> "ir", unit |-> c.pre[1].text]>>
            /\ c.post[3] = c.pre[3]

\* ------------------------------------- the claims about the symbol table

\* The names asked of findSymbol and lookupFunction: base names, names with
\* their parameter list, linkable names, and names nothing is called.
AskedNames ==
  {<<"add", "_cxx">>, <<"add">>, <<"add", "_cxx", "2">>, <<"init">>,
   <<"destroy">>, <<"is_initialized">>, <<"get_gain">>, <<"square">>,
   <<"sum_of_squares">>, <<"_Z4initdjj">>, <<"mul">>, <<>>,
   <<"init", "(", "double, unsigned int, unsigned int)">>}

\* An entry matches a name: its demangled form is the name, or the name
\* followed by "(" and anything.
Matches(e, name) ==
  \E k \in 0 .. Len(e.demangled) :
    /\ SubSeq(e.demangled, 1, k) = name
    /\ k = Len(e.demangled) \/ e.demangled[k + 1] = "("

\* The entries of a table that match a name, and the first of them.
Hits(syms, name) == {i \in DOMAIN syms : Matches(syms[i], name)}
FirstHit(syms, name) ==
  CHOOSE i \in Hits(syms, name) : \A k \in Hits(syms, name) : i <= k

\* The units of an instance, by the text they were compiled from.
Linked(j) == {llJIT_[j][k].unit : k \in DOMAIN llJIT_[j]}
LinkedAt(j, text) == CHOOSE k \in DOMAIN llJIT_[j] : llJIT_[j][k].unit = text

\* C21: findSymbol(name) returns the linkable name of the first entry, in
\* the order the entries were inserted over all units added, whose demangled
\* form is name or name followed by "("; it returns nothing when no entry
\* matches.
C21_FindSymbolFirstMatch ==
  \A j \in DOMAIN symbols_, name \in AskedNames :
    IF Hits(symbols_[j], name) = {}
      THEN findSymbol(symbols_[j], name) = nullopt
    ELSE findSymbol(symbols_[j], name)
           = Some(symbols_[j][FirstHit(symbols_[j], name)].mangled)

\* C21 witness: an instance holds cxx_process.cc, lifecycle_test.cc and
\* cxx_func.cc, added in this order: init is found in the first unit though
\* the second has an entry "init", add_cxx is found behind add_cxx2, and
\* add is not found.
C21_Witness ==
  \E j \in DOMAIN symbols_ :
    /\ llJIT_[j] = <<[from |-> "ir", unit |-> "cxx_process"],
                     [from |-> "ir", unit |-> "lifecycle"],
                     [from |-> "ir", unit |-> "cxx_func"]>>
    /\ findSymbol(symbols_[j], <<"init">>) = Some(<<"_Z4initdjj">>)
    /\ findSymbol(symbols_[j], <<"add", "_cxx">>) = Some(<<"_Z7add_cxxii">>)
    /\ findSymbol(symbols_[j], <<"add">>) = nullopt

\* The name before the parameter list of a demangled form.
RECURSIVE BaseName(_)
BaseName(demangled) ==
  IF demangled = <<>> \/ Head(demangled) = "(" THEN <<>>
  ELSE <<Head(demangled)>> \o BaseName(Tail(demangled))

IsPrefix(s, t) == Len(s) <= Len(t) /\ SubSeq(t, 1, Len(s)) = s

\* A step in which an addModule returned success.
AddedOk == adds' = adds + 1 /\ last_add'.ret = "ok"

\* C23: a successful addModule only appends to the symbol table and to the
\* units linked, and every name lookupFunction resolved before it resolves
\* to the same function after it; and with helper.cc and uses_helper.cc
\* both added, the function that calls across the two is resolved.
C23_SymbolsAccumulate ==
  /\ [][AddedOk =>
          \A j \in DOMAIN symbols_ :
            /\ IsPrefix(symbols_[j], symbols_'[j])
            /\ IsPrefix(llJIT_[j], llJIT_'[j])
            /\ \A name \in AskedNames :
                 lookupFunction(symbols_[j], llJIT_[j], name).ok
                 => lookupFunction(symbols_'[j], llJIT_'[j], name)
                      = lookupFunction(symbols_[j], llJIT_[j], name)]_vars
  /\ [](\A j \in DOMAIN symbols_ :
          {"helper", "uses_helper"} \subseteq Linked(j)
          => lookupFunction(symbols_[j], llJIT_[j], <<"sum_of_squares">>).ok)

\* C23 witness: helper.cc, uses_helper.cc and cxx_func.cc were added to one
\* instance by successful calls, and functions of all three resolve.
C23_Witness ==
  \E j \in DOMAIN symbols_ :
    /\ last_add.ret = "ok" /\ last_add.jit = j
    /\ Linked(j) = {"helper", "uses_helper", "cxx_func"}
    /\ lookupFunction(symbols_[j], llJIT_[j], <<"square">>).ok
    /\ lookupFunction(symbols_[j], llJIT_[j], <<"sum_of_squares">>).ok
    /\ lookupFunction(symbols_[j], llJIT_[j], <<"add", "_cxx">>).ok

\* ------------------------------------------- the claims about the errors

\* String s occurs in string t.
Contains(t, s) ==
  \E i \in 1 .. Len(t) - Len(s) + 1 : SubSeq(t, i, i + Len(s) - 1) = s

\* The last addModule failed in compileSingleFile.
CompileFailed == last_add.jit # 0 /\ last_add.M = ""

\* C24: a failure of compileSingleFile is an error value, never an
\* exception; its message holds the path of the file; and where
\* diagnostics were captured, the message holds their text.
C24_CompileErrorCarriesPathAndDiagnostics ==
  CompileFailed =>
    /\ last_add.err.type = "StringError"
    /\ Contains(last_add.err.message, last_add.FilePath)
    /\ last_add.diagOutput # <<>>
       => Contains(last_add.err.message, last_add.diagOutput)

\* C25: a source that compiles and defines no function makes addModule
\* fail with the error of an empty output, which is neither the error of a
\* failed target nor that of a failed compilation; the unit is not linked.
C25_EmptyUnitFails ==
  last_add.jit # 0 /\ last_add.M # "" /\ Functions(last_add.M) = <<>> =>
    /\ last_add.ret # "ok"
    /\ last_add.err.type = "StringError"
    /\ last_add.err.code = "ModuleGenerationFailed"
    /\ last_add.linked = <<>>

\* C26: when the unit of an addModule call cannot be linked because it
\* defines a symbol again, the error returned holds the path of the unit's
\* source file and is no compilation failure.
C26_LinkErrorNamesSource ==
  \A i \in DOMAIN calls :
    calls[i].ret = "duplicate definition" =>
      /\ Contains(calls[i].err.message, str(SourceFile))
      /\ calls[i].err.code # "CompilationFailed"

\* ------------------------------------- the claims about the GUI's status

\* do_recompile returns: after a failed compile_dsp, or at its end.
Returns == ctl_pc # "idle" /\ ctl_pc' = "idle"

\* C27: when do_recompile returns, compile_success tells whether the
\* compile_dsp of this call succeeded, last_error is empty exactly if it
\* did, and after a failure last_error is the error of this call's result.
C27_StatusOfLastAttempt ==
  [][Returns =>
       /\ compile_success' = exports'[ncompiles'].ok
       /\ (last_error' = "") = exports'[ncompiles'].ok
       /\ ~exports'[ncompiles'].ok
          => last_error' = result'.error /\ result'.error \in CompileErrors]_vars

\* C27 witness: a do_recompile succeeded and the next one failed (the
\* status says so), or one failed and the next one succeeded.
C27_Witness ==
  /\ ncompiles = 3 /\ ctl_pc = "idle" /\ exports[1].ok
  /\ exports[2].ok # exports[3].ok
  /\ compile_success = exports[3].ok
  /\ (last_error = "") = exports[3].ok

\* ------------------------------------------ the claims about the parameters

\* The number of parameters a unit declares to the plugin, and the value
\* each of them starts with (0.5f when the unit exports no param_default).
Declared(r) ==
  IF r.param_count = Absent THEN 0
  ELSE IF r.param_count < 16 THEN r.param_count ELSE 16
DeclaredDefault(r) == IF r.param_default = Absent THEN 5 ELSE r.param_default

\* The plugin's parameters are the ones unit r declares, at their defaults.
Described(r) ==
  /\ Len(param_info) = Declared(r)
  /\ Len(gui_params) = Declared(r)
  /\ \A i \in 1 .. Declared(r) :
       /\ param_info[i].default_value = DeclaredDefault(r)
       /\ gui_params[i] = DeclaredDefault(r)
       /\ g_params[i] = DeclaredDefault(r)

InitSucceeds == lifecycle = "created" /\ lifecycle' = "inited"
InitFails == lifecycle = "created" /\ lifecycle' = "init_failed"
Publishes == ctl_pc = "publish" /\ ctl_pc' = "idle"
\* do_recompile calls query_dsp_params, clears the vectors, runs one turn
\* of the loop, and query_dsp_params returns.
QueryEnters == ctl_pc # "query" /\ ctl_pc' = "query"
QueryClears == ctl_pc = "query" /\ ctl_pc' # "query"
QueryTurn == ctl_pc = "query_loop" /\ qi' # qi
QueryLeaves == ctl_pc # "publish" /\ ctl_pc' = "publish"

\* C28: the parameter exports are queried once per successful compile and
\* never for a failed one.  A failed plugin_init or do_recompile leaves the
\* parameters as they were; the description changes only in plugin_init's
\* successful step and in the query of a successful do_recompile, which is
\* entered once, visits each index once and stores the default of each;
\* when plugin_init succeeds and when do_recompile returns from a
\* successful compile the plugin has no parameter if param_count is absent
\* and min(param_count(), 16) parameters at their defaults otherwise.
C28_QueriedOncePerSuccessfulCompile ==
  [][/\ (InitFails \/ FailedReturn) => UNCHANGED params
     /\ param_info' # param_info
        => \/ InitSucceeds
           \/ ctl_pc \in {"query", "query_loop"} /\ success(result)
     /\ QueryEnters => ctl_pc = "set_jit" /\ success(result)
     /\ QueryClears
        => /\ ctl_pc' \in {"query_loop", "publish"}
           /\ qi' = 0 /\ param_info' = <<>> /\ gui_params' = <<>>
     /\ QueryTurn
        => /\ ctl_pc' \in {"query_loop", "publish"}
           /\ qi' = qi + 1
           /\ Len(param_info') = qi' /\ Len(gui_params') = qi'
           /\ gui_params'[qi'] = DeclaredDefault(result)
           /\ g_params'[qi'] = DeclaredDefault(result)
     /\ QueryLeaves => ctl_pc \in {"query", "query_loop"}
     /\ Publishes => qi = Declared(result) /\ Described(result)
     /\ InitSucceeds
        => \E o \in ManyParamOutcomes :
             /\ success(compile_dsp(1, o))
             /\ ExportsOf(compile_dsp(1, o)) = exports'[1]
             /\ Described(compile_dsp(1, o))']_vars

\* A second compile of a unit that reports 17 parameters has been queried:
\* the plugin has 16 of them, each at the fallback default.
C28_Witness ==
  /\ ctl_pc = "publish" /\ ncompiles = 2
  /\ result.param_count = 17 /\ result.param_default = Absent
  /\ Len(param_info) = 16 /\ qi = 16
  /\ g_params[16] = 5 /\ gui_params[16] = 5

\* ------------------------------------------ the claims about the watcher

\* The file has been saved since compile_dsp last read it.
Dirty == lifecycle = "inited" /\ saved_at = ncompiles

\* The main thread is in neither timer_on_timer nor do_recompile.
AtRest == timer_pc = "none" /\ ctl_pc = "idle"

\* The next run of timer_on_timer calls do_recompile.
TickRecompiles == last_modified # 0 /\ dsp_mtime # last_modified

\* C29: no save is silently missed.  Whenever the main thread is at rest
\* and the selected file has been saved since it was last compiled, the
\* next tick of the file-watch timer calls do_recompile; this is so for a
\* save before the first tick and for one right after a manual recompile.
C29_NoSaveMissed == Dirty /\ AtRest => TickRecompiles

\* ------------------------------------ the claims about the static state

\* What lookupFunction finds on instance j.
Resolve(j, FunctionName) == lookupFunction(symbols_[j], llJIT_[j], FunctionName)

\* The functions of lifecycle_test.cc.
LifecycleNames ==
  {<<"init">>, <<"destroy">>, <<"is_initialized">>, <<"get_sample_rate">>}

\* lifecycle_test.cc is linked into instance j and its init is the one a
\* lookup of init finds.
LifecycleUnit(j) ==
  /\ "lifecycle" \in Linked(j)
  /\ Resolve(j, <<"init">>).ok
  /\ Resolve(j, <<"init">>).addr = <<LinkedAt(j, "lifecycle"), <<"init">>>>

\* What the unit's state queries, looked up on instance j and called,
\* return.
Reports(j) ==
  [is_initialized |-> Call(j, <<"is_initialized">>, 0).r.value,
   get_sample_rate |-> Call(j, <<"get_sample_rate">>, 0).r.value]

\* C30: the functions looked up from one ClapJIT instance work on one copy
\* of the unit's static variables.  On every instance that holds
\* lifecycle_test.cc the four functions resolve into that one unit, and the
\* queries report initialized and the rate of the call exactly when the
\* last of init and destroy called on this instance was init(rate, ...);
\* before any call and after destroy they report not initialized and 0,
\* whatever was called on another instance.
C30_SharedStaticState ==
  \A j \in DOMAIN options_ :
    LifecycleUnit(j)
    => /\ \A n \in LifecycleNames :
            /\ Resolve(j, n).ok
            /\ Resolve(j, n).addr[1] = LinkedAt(j, "lifecycle")
       /\ Reports(j) =
            IF life[j].symbol = <<"init">>
              THEN [is_initialized |-> <<TRUE>>,
                    get_sample_rate |-> <<life[j].rate>>]
            ELSE [is_initialized |-> <<FALSE>>, get_sample_rate |-> <<0>>]

\* Instance 1 holds lifecycle_test.cc and, added after it, cxx_process.cc,
\* and init(48, ...) was called on it last; instance 2 holds
\* lifecycle_test.cc too and destroy was called on it last.
C30_Witness ==
  /\ LifecycleUnit(1) /\ "cxx_process" \in Linked(1)
  /\ life[1] = [symbol |-> <<"init">>, rate |-> 48]
  /\ Reports(1) = [is_initialized |-> <<TRUE>>, get_sample_rate |-> <<48>>]
  /\ LifecycleUnit(2) /\ life[2].symbol = <<"destroy">>
  /\ Reports(2) = [is_initialized |-> <<FALSE>>, get_sample_rate |-> <<0>>]

\* ------------------------------- the claims about the parameter vectors

\* The parameter sync of plugin_process is about to read gui_params[si]
\* and write g_params[si].
SyncReads == audio_pc = "sync_copy"

\* C31: under any interleaving of do_recompile with plugin_process, the
\* index the parameter sync reads gui_params at is below the vector's
\* current size and the index it writes g_params at is below 16; while no
\* do_recompile is in progress param_info and gui_params have one size,
\* which is at most 16.
C31_ParamIndicesInRange ==
  /\ SyncReads => si < Len(gui_params) /\ si < GParamsLen
  /\ ctl_pc = "idle"
     => Len(param_info) = Len(gui_params) /\ Len(gui_params) <= GParamsLen

\* ---------------------------------------------- the claims about the hooks

\* Unit c's ClapJIT instance has been released.
Released(c) == c <= ncompiles /\ c \notin alive

\* C32: setup and teardown of each binding alternate, setup first.  No
\* unit's destroy is called unless the last call of its init returned true
\* and no destroy came after, no unit's init is called again before its
\* destroy, and no unit's instance is released while its init has returned
\* true and its destroy has not been called since.
C32_HooksAlternate ==
  \A c \in 1 .. MaxCompiles :
    /\ hooks[c] \notin Misused
    /\ Released(c) => hooks[c] # "up"

\* --------------------------------------- the claims about a stale cache

\* C33: whenever addModule takes the cache hit, the object it links is the
\* one a compile of the source as it is now, with the header it includes
\* as it is now, under the options of this instance would give: the text
\* of the unit linked is the text of the source, and the header and the
\* language standard the object was compiled with are the current ones.
C33_CacheHitNeverStale ==
  last_link.hit
  => /\ last_link.built = last_link.wanted
     /\ Last(calls).linked[1].unit = Last(calls).pre[1].text

\* ------------------------------- the claims about a failed addModule

\* C34: a failed addModule leaves the symbol table as it was.  No call
\* that returned an error has added an entry, and every entry of an
\* instance's table names a function that a unit linked into the instance
\* defines.
C34_FailedAddLeavesTable ==
  /\ \A k \in DOMAIN calls : calls[k].ret # "ok" => calls[k].added = <<>>
  /\ \A j \in DOMAIN symbols_ :
       \A e \in DOMAIN symbols_[j] :
         symbols_[j][e].mangled \in Defined(llJIT_[j])

\* ------------------------------- the claims about the processing function

\* C35: once plugin_init has returned true, process_fn is never null,
\* whatever do_recompile, plugin_activate, plugin_deactivate and
\* plugin_process do and however they interleave; the pointer
\* plugin_process loads is never null, so it never returns
\* CLAP_PROCESS_ERROR for lack of a processing function.
C35_ProcessFnNeverNull ==
  /\ lifecycle = "inited" => process_fn # 0
  /\ audio_pc \in {"call", "in_fn"} => fn # 0

\* plugin_process has swapped to the second compile's function while a
\* third compile failed, and has loaded that function.
C35_Witness ==
  /\ lifecycle = "inited" /\ ncompiles = 3
  /\ exports[2].ok /\ ~exports[3].ok
  /\ audio_pc = "call" /\ process_fn = 2 /\ fn = 2

\* ------------------------------- the claims about the watcher's recompiles

\* timer_on_timer calls do_recompile; it returns from the call; it ends
\* without a call and with another time stored.
TimerCalls == timer_pc = "none" /\ timer_pc' = "recompile"
TimerReturns == timer_pc = "recompile" /\ timer_pc' = "none"
TimerStores ==
  /\ timer_pc = "none" /\ timer_pc' = "none"
  /\ ctl_pc = "idle" /\ ctl_pc' = "idle"
  /\ last_modified' # last_modified

C37_NoDoubleCompileAfterGui == [][TimerCalls => gui_pc # "done"]_vars

\* do_recompile's call of compile_dsp returns.
CompileReturns == ctl_pc = "compile" /\ ncompiles' = ncompiles + 1

\* plugin_init's call of compile_dsp has returned.
InitCompileReturns == lifecycle = "created" /\ ncompiles' = ncompiles + 1

CompleteResult(r) == r.jit # 0 /\ r.process_fn # 0 /\ r.error = ""

FailedResult(r) ==
  /\ r.jit = 0 /\ r.process_fn = 0 /\ r.init_fn = 0 /\ r.destroy_fn = 0
  /\ r.param_count = Absent /\ r.param_default = Absent
  /\ r.error # ""

\* C38: compile_dsp returns a complete result (jit, process_fn, no error) or
\* a failed one (no jit, no function, an error), never a JIT instance
\* without `process`; a result fails for one of compile_dsp's five errors
\* only, and a unit with `process` compiles to a complete result whichever
\* optional exports it lacks.
C38_CompleteOrFailed ==
  [][/\ CompileReturns
        => /\ CompleteResult(result') \/ FailedResult(result')
           /\ FailedResult(result') => result'.error \in CompileErrors
           /\ exports'[ncompiles'].ok = CompleteResult(result')
     /\ InitCompileReturns
        => IF exports'[ncompiles'].ok
             THEN lifecycle' = "inited" /\ jit' # 0 /\ process_fn' # 0
             ELSE lifecycle' = "init_failed" /\ init_log' \in CompileErrors
     /\ \A u \in Units :
          CompleteResult(compile_dsp(ncompiles + 1, [fail |-> "none", unit |-> u]))
    ]_vars

C38_Witness ==
  /\ ctl_pc = "set_fn" /\ CompleteResult(result)
  /\ result.init_fn = 0 /\ result.destroy_fn = 0
  /\ result.param_count = Absent /\ result.param_default = Absent
  /\ ~exports[ncompiles - 1].ok

\* A turn of the loop of addModules: one call of addModule.
AddStep == adds' = adds + 1

\* addModules is between two turns of its loop.
InLoop == queue.jit # 0

\* The units linked into instance j before the step are linked after it, and
\* every name that resolved before it resolves to the same function.
EarlierUnitsStay(j) ==
  /\ Len(llJIT_[j]) <= Len(llJIT_'[j])
  /\ SubSeq(llJIT_'[j], 1, Len(llJIT_[j])) = llJIT_[j]
  /\ \A n \in AskedNames :
       Resolve(j, n).ok
       => lookupFunction(symbols_'[j], llJIT_'[j], n) = Resolve(j, n)

\* C39: addModules adds its files in order and stops at the first failure
\* with that error: the units added before stay linked and resolvable, no
\* file after the failing one is compiled or linked, and it goes on to the
\* next file after a success, returning success after the last one only.
C39_StopsAtFirstFailure ==
  [][AddStep
       => /\ InLoop
             => /\ last_add.ret = "ok"
                /\ last_add'.jit = queue.jit
                /\ last_add'.FilePath = str(Head(queue.FilePaths))
                /\ queue' = IF last_add'.ret = "ok" /\ Tail(queue.FilePaths) # <<>>
                              THEN [jit |-> queue.jit, FilePaths |-> Tail(queue.FilePaths)]
                            ELSE NoQueue
          /\ last_add'.ret # "ok"
             => queue' = NoQueue /\ EarlierUnitsStay(last_add'.jit)
          /\ queue' # NoQueue => last_add'.ret = "ok"]_vars

\* The second file of addModules has failed after the first was linked.
C39_Witness ==
  /\ adds = 2 /\ queue = NoQueue /\ last_add.ret # "ok"
  /\ last_add.FilePath = str(TestPath("missing.cc"))
  /\ Len(llJIT_[last_add.jit]) = 1
  /\ Resolve(last_add.jit, <<"square">>).ok

====
